---- MODULE Spec2Model ----
(***************************************************************************)
(* Model of src/main.py: the resume-builder backend.                       *)
(*                                                                         *)
(* Strings are sequences of characters, so that split, lower, strip,       *)
(* slicing and hex formatting are computed as the code computes them.  A   *)
(* character is written as itself when it is printable ASCII (the grave    *)
(* accent apart) or one of \t, \n, \f, \r, and by its code point, as in     *)
(* "U+00C9", otherwise.                                                    *)
(* Values of a field that may hold several Python types are tagged         *)
(* records [t |-> type, v |-> payload].                                    *)
(***************************************************************************)
EXTENDS Integers, Sequences, FiniteSets, TLC

VARIABLES
    db,        \* TRUE iff the imported store handle is not None (main.py:9)
    libs,      \* which of PdfReader and docx were imported (main.py:13-21)
    user,      \* collection db["user"], in insertion order
    session,   \* collection db["session"], in insertion order
    profile,   \* collection db["profile"], in insertion order
    clock,     \* datetime.now(timezone.utc): per collection, the next reading
    reading,   \* the worker that took the first of the two readings of a
               \* document in the latest step of all, or 0
    pc,        \* per worker: the step of its handler it takes next, or idle
    req,       \* per worker: the request body being served
    found,     \* per worker: `user`, the result of find_one (main.py:81)
    uid,       \* per worker: `user_id` (main.py:90, 92)
    built,     \* per worker: the document or update being built, or built and
               \* not yet stored
    draws,     \* number of uuid4() calls so far
    trace,     \* observed steps of the sign-in calls, oldest first
    last,      \* the most recent HTTP response of any handler
    saves,     \* the successful POST /profile calls: payload and response
    calls,     \* number of HTTP requests accepted so far
    ops,       \* number of store operations issued so far, by kind
    gen,       \* the /generate request and its response
    ext        \* the /upload/extract-text request and its response

storeVars == <<user, session, profile>>
vars == <<db, libs, user, session, profile, clock, reading, pc, req, found,
          uid, built, draws, trace, last, saves, calls, ops, gen, ext>>

-----------------------------------------------------------------------------
(* Bounds of the model.                                                    *)

\* number of HTTP requests served in one behaviour of Spec
MaxCalls == 3
\* number of requests served in one behaviour of SpecSignin: the first
\* MaxMixed of them are of any kind, the later ones are sign-ins; the first
\* MaxOverlap of them are served in any interleaving, a later one is
\* accepted once those before it are answered
MaxSignins == 5
MaxMixed == 1
MaxOverlap == 3

Procs == {1, 2}

-----------------------------------------------------------------------------
(* Python values.                                                          *)

None == [t |-> "none", v |-> <<>>]
Str(s) == [t |-> "str", v |-> s]
Truthy(x) == x.t # "none" /\ x.v # <<>>
\* Python's `a or b`
Or(a, b) == IF Truthy(a) THEN a ELSE b

Min(a, b) == IF a < b THEN a ELSE b
Range(s) == {s[i] : i \in 1..Len(s)}

HexDigits == <<"0", "1", "2", "3", "4", "5", "6", "7",
               "8", "9", "a", "b", "c", "d", "e", "f">>
UpperHex == {"A", "B", "C", "D", "E", "F"}

\* the characters written as themselves
Ascii ==
    {" ", "!", "\"", "#", "$", "%", "&", "'", "(", ")", "*", "+", ",", "-",
     ".", "/", "0", "1", "2", "3", "4", "5", "6", "7", "8", "9", ":", ";",
     "<", "=", ">", "?", "@", "A", "B", "C", "D", "E", "F", "G", "H", "I",
     "J", "K", "L", "M", "N", "O", "P", "Q", "R", "S", "T", "U", "V", "W",
     "X", "Y", "Z", "[", "\\", "]", "^", "_", "a", "b", "c", "d", "e", "f",
     "g", "h", "i", "j", "k", "l", "m", "n", "o", "p", "q", "r", "s", "t",
     "u", "v", "w", "x", "y", "z", "{", "|", "}", "~", "\t", "\n", "\f", "\r"}

\* c.lower() of an ASCII character
LowerAscii(c) ==
    CASE c = "A" -> "a" [] c = "B" -> "b" [] c = "C" -> "c" [] c = "D" -> "d"
      [] c = "E" -> "e" [] c = "F" -> "f" [] c = "G" -> "g" [] c = "H" -> "h"
      [] c = "I" -> "i" [] c = "J" -> "j" [] c = "K" -> "k" [] c = "L" -> "l"
      [] c = "M" -> "m" [] c = "N" -> "n" [] c = "O" -> "o" [] c = "P" -> "p"
      [] c = "Q" -> "q" [] c = "R" -> "r" [] c = "S" -> "s" [] c = "T" -> "t"
      [] c = "U" -> "u" [] c = "V" -> "v" [] c = "W" -> "w" [] c = "X" -> "x"
      [] c = "Y" -> "y" [] c = "Z" -> "z" [] OTHER -> c

\* Every other character that str.lower() changes into one character, with
\* that character (the Unicode 14.0 tables of Python 3.11).
LowerPairs ==
    {<<"U+00C0", "U+00E0">>, <<"U+00C1", "U+00E1">>, <<"U+00C2", "U+00E2">>,
     <<"U+00C3", "U+00E3">>, <<"U+00C4", "U+00E4">>, <<"U+00C5", "U+00E5">>,
     <<"U+00C6", "U+00E6">>, <<"U+00C7", "U+00E7">>, <<"U+00C8", "U+00E8">>,
     <<"U+00C9", "U+00E9">>, <<"U+00CA", "U+00EA">>, <<"U+00CB", "U+00EB">>,
     <<"U+00CC", "U+00EC">>, <<"U+00CD", "U+00ED">>, <<"U+00CE", "U+00EE">>,
     <<"U+00CF", "U+00EF">>, <<"U+00D0", "U+00F0">>, <<"U+00D1", "U+00F1">>,
     <<"U+00D2", "U+00F2">>, <<"U+00D3", "U+00F3">>, <<"U+00D4", "U+00F4">>,
     <<"U+00D5", "U+00F5">>, <<"U+00D6", "U+00F6">>, <<"U+00D8", "U+00F8">>,
     <<"U+00D9", "U+00F9">>, <<"U+00DA", "U+00FA">>, <<"U+00DB", "U+00FB">>,
     <<"U+00DC", "U+00FC">>, <<"U+00DD", "U+00FD">>, <<"U+00DE", "U+00FE">>,
     <<"U+0100", "U+0101">>, <<"U+0102", "U+0103">>, <<"U+0104", "U+0105">>,
     <<"U+0106", "U+0107">>, <<"U+0108", "U+0109">>, <<"U+010A", "U+010B">>,
     <<"U+010C", "U+010D">>, <<"U+010E", "U+010F">>, <<"U+0110", "U+0111">>,
     <<"U+0112", "U+0113">>, <<"U+0114", "U+0115">>, <<"U+0116", "U+0117">>,
     <<"U+0118", "U+0119">>, <<"U+011A", "U+011B">>, <<"U+011C", "U+011D">>,
     <<"U+011E", "U+011F">>, <<"U+0120", "U+0121">>, <<"U+0122", "U+0123">>,
     <<"U+0124", "U+0125">>, <<"U+0126", "U+0127">>, <<"U+0128", "U+0129">>,
     <<"U+012A", "U+012B">>, <<"U+012C", "U+012D">>, <<"U+012E", "U+012F">>,
     <<"U+0132", "U+0133">>, <<"U+0134", "U+0135">>, <<"U+0136", "U+0137">>,
     <<"U+0139", "U+013A">>, <<"U+013B", "U+013C">>, <<"U+013D", "U+013E">>,
     <<"U+013F", "U+0140">>, <<"U+0141", "U+0142">>, <<"U+0143", "U+0144">>,
     <<"U+0145", "U+0146">>, <<"U+0147", "U+0148">>, <<"U+014A", "U+014B">>,
     <<"U+014C", "U+014D">>, <<"U+014E", "U+014F">>, <<"U+0150", "U+0151">>,
     <<"U+0152", "U+0153">>, <<"U+0154", "U+0155">>, <<"U+0156", "U+0157">>,
     <<"U+0158", "U+0159">>, <<"U+015A", "U+015B">>, <<"U+015C", "U+015D">>,
     <<"U+015E", "U+015F">>, <<"U+0160", "U+0161">>, <<"U+0162", "U+0163">>,
     <<"U+0164", "U+0165">>, <<"U+0166", "U+0167">>, <<"U+0168", "U+0169">>,
     <<"U+016A", "U+016B">>, <<"U+016C", "U+016D">>, <<"U+016E", "U+016F">>,
     <<"U+0170", "U+0171">>, <<"U+0172", "U+0173">>, <<"U+0174", "U+0175">>,
     <<"U+0176", "U+0177">>, <<"U+0178", "U+00FF">>, <<"U+0179", "U+017A">>,
     <<"U+017B", "U+017C">>, <<"U+017D", "U+017E">>, <<"U+0181", "U+0253">>,
     <<"U+0182", "U+0183">>, <<"U+0184", "U+0185">>, <<"U+0186", "U+0254">>,
     <<"U+0187", "U+0188">>, <<"U+0189", "U+0256">>, <<"U+018A", "U+0257">>,
     <<"U+018B", "U+018C">>, <<"U+018E", "U+01DD">>, <<"U+018F", "U+0259">>,
     <<"U+0190", "U+025B">>, <<"U+0191", "U+0192">>, <<"U+0193", "U+0260">>,
     <<"U+0194", "U+0263">>, <<"U+0196", "U+0269">>, <<"U+0197", "U+0268">>,
     <<"U+0198", "U+0199">>, <<"U+019C", "U+026F">>, <<"U+019D", "U+0272">>,
     <<"U+019F", "U+0275">>, <<"U+01A0", "U+01A1">>, <<"U+01A2", "U+01A3">>,
     <<"U+01A4", "U+01A5">>, <<"U+01A6", "U+0280">>, <<"U+01A7", "U+01A8">>,
     <<"U+01A9", "U+0283">>, <<"U+01AC", "U+01AD">>, <<"U+01AE", "U+0288">>,
     <<"U+01AF", "U+01B0">>, <<"U+01B1", "U+028A">>, <<"U+01B2", "U+028B">>,
     <<"U+01B3", "U+01B4">>, <<"U+01B5", "U+01B6">>, <<"U+01B7", "U+0292">>,
     <<"U+01B8", "U+01B9">>, <<"U+01BC", "U+01BD">>, <<"U+01C4", "U+01C6">>,
     <<"U+01C5", "U+01C6">>, <<"U+01C7", "U+01C9">>, <<"U+01C8", "U+01C9">>,
     <<"U+01CA", "U+01CC">>, <<"U+01CB", "U+01CC">>, <<"U+01CD", "U+01CE">>,
     <<"U+01CF", "U+01D0">>, <<"U+01D1", "U+01D2">>, <<"U+01D3", "U+01D4">>,
     <<"U+01D5", "U+01D6">>, <<"U+01D7", "U+01D8">>, <<"U+01D9", "U+01DA">>,
     <<"U+01DB", "U+01DC">>, <<"U+01DE", "U+01DF">>, <<"U+01E0", "U+01E1">>,
     <<"U+01E2", "U+01E3">>, <<"U+01E4", "U+01E5">>, <<"U+01E6", "U+01E7">>,
     <<"U+01E8", "U+01E9">>, <<"U+01EA", "U+01EB">>, <<"U+01EC", "U+01ED">>,
     <<"U+01EE", "U+01EF">>, <<"U+01F1", "U+01F3">>, <<"U+01F2", "U+01F3">>,
     <<"U+01F4", "U+01F5">>, <<"U+01F6", "U+0195">>, <<"U+01F7", "U+01BF">>,
     <<"U+01F8", "U+01F9">>, <<"U+01FA", "U+01FB">>, <<"U+01FC", "U+01FD">>,
     <<"U+01FE", "U+01FF">>, <<"U+0200", "U+0201">>, <<"U+0202", "U+0203">>,
     <<"U+0204", "U+0205">>, <<"U+0206", "U+0207">>, <<"U+0208", "U+0209">>,
     <<"U+020A", "U+020B">>, <<"U+020C", "U+020D">>, <<"U+020E", "U+020F">>,
     <<"U+0210", "U+0211">>, <<"U+0212", "U+0213">>, <<"U+0214", "U+0215">>,
     <<"U+0216", "U+0217">>, <<"U+0218", "U+0219">>, <<"U+021A", "U+021B">>,
     <<"U+021C", "U+021D">>, <<"U+021E", "U+021F">>, <<"U+0220", "U+019E">>,
     <<"U+0222", "U+0223">>, <<"U+0224", "U+0225">>, <<"U+0226", "U+0227">>,
     <<"U+0228", "U+0229">>, <<"U+022A", "U+022B">>, <<"U+022C", "U+022D">>,
     <<"U+022E", "U+022F">>, <<"U+0230", "U+0231">>, <<"U+0232", "U+0233">>,
     <<"U+023A", "U+2C65">>, <<"U+023B", "U+023C">>, <<"U+023D", "U+019A">>,
     <<"U+023E", "U+2C66">>, <<"U+0241", "U+0242">>, <<"U+0243", "U+0180">>,
     <<"U+0244", "U+0289">>, <<"U+0245", "U+028C">>, <<"U+0246", "U+0247">>,
     <<"U+0248", "U+0249">>, <<"U+024A", "U+024B">>, <<"U+024C", "U+024D">>,
     <<"U+024E", "U+024F">>, <<"U+0370", "U+0371">>, <<"U+0372", "U+0373">>,
     <<"U+0376", "U+0377">>, <<"U+037F", "U+03F3">>, <<"U+0386", "U+03AC">>,
     <<"U+0388", "U+03AD">>, <<"U+0389", "U+03AE">>, <<"U+038A", "U+03AF">>,
     <<"U+038C", "U+03CC">>, <<"U+038E", "U+03CD">>, <<"U+038F", "U+03CE">>,
     <<"U+0391", "U+03B1">>, <<"U+0392", "U+03B2">>, <<"U+0393", "U+03B3">>,
     <<"U+0394", "U+03B4">>, <<"U+0395", "U+03B5">>, <<"U+0396", "U+03B6">>,
     <<"U+0397", "U+03B7">>, <<"U+0398", "U+03B8">>, <<"U+0399", "U+03B9">>,
     <<"U+039A", "U+03BA">>, <<"U+039B", "U+03BB">>, <<"U+039C", "U+03BC">>,
     <<"U+039D", "U+03BD">>, <<"U+039E", "U+03BE">>, <<"U+039F", "U+03BF">>,
     <<"U+03A0", "U+03C0">>, <<"U+03A1", "U+03C1">>, <<"U+03A4", "U+03C4">>,
     <<"U+03A5", "U+03C5">>, <<"U+03A6", "U+03C6">>, <<"U+03A7", "U+03C7">>,
     <<"U+03A8", "U+03C8">>, <<"U+03A9", "U+03C9">>, <<"U+03AA", "U+03CA">>,
     <<"U+03AB", "U+03CB">>, <<"U+03CF", "U+03D7">>, <<"U+03D8", "U+03D9">>,
     <<"U+03DA", "U+03DB">>, <<"U+03DC", "U+03DD">>, <<"U+03DE", "U+03DF">>,
     <<"U+03E0", "U+03E1">>, <<"U+03E2", "U+03E3">>, <<"U+03E4", "U+03E5">>,
     <<"U+03E6", "U+03E7">>, <<"U+03E8", "U+03E9">>, <<"U+03EA", "U+03EB">>,
     <<"U+03EC", "U+03ED">>, <<"U+03EE", "U+03EF">>, <<"U+03F4", "U+03B8">>,
     <<"U+03F7", "U+03F8">>, <<"U+03F9", "U+03F2">>, <<"U+03FA", "U+03FB">>,
     <<"U+03FD", "U+037B">>, <<"U+03FE", "U+037C">>, <<"U+03FF", "U+037D">>,
     <<"U+0400", "U+0450">>, <<"U+0401", "U+0451">>, <<"U+0402", "U+0452">>,
     <<"U+0403", "U+0453">>, <<"U+0404", "U+0454">>, <<"U+0405", "U+0455">>,
     <<"U+0406", "U+0456">>, <<"U+0407", "U+0457">>, <<"U+0408", "U+0458">>,
     <<"U+0409", "U+0459">>, <<"U+040A", "U+045A">>, <<"U+040B", "U+045B">>,
     <<"U+040C", "U+045C">>, <<"U+040D", "U+045D">>, <<"U+040E", "U+045E">>,
     <<"U+040F", "U+045F">>, <<"U+0410", "U+0430">>, <<"U+0411", "U+0431">>,
     <<"U+0412", "U+0432">>, <<"U+0413", "U+0433">>, <<"U+0414", "U+0434">>,
     <<"U+0415", "U+0435">>, <<"U+0416", "U+0436">>, <<"U+0417", "U+0437">>,
     <<"U+0418", "U+0438">>, <<"U+0419", "U+0439">>, <<"U+041A", "U+043A">>,
     <<"U+041B", "U+043B">>, <<"U+041C", "U+043C">>, <<"U+041D", "U+043D">>,
     <<"U+041E", "U+043E">>, <<"U+041F", "U+043F">>, <<"U+0420", "U+0440">>,
     <<"U+0421", "U+0441">>, <<"U+0422", "U+0442">>, <<"U+0423", "U+0443">>,
     <<"U+0424", "U+0444">>, <<"U+0425", "U+0445">>, <<"U+0426", "U+0446">>,
     <<"U+0427", "U+0447">>, <<"U+0428", "U+0448">>, <<"U+0429", "U+0449">>,
     <<"U+042A", "U+044A">>, <<"U+042B", "U+044B">>, <<"U+042C", "U+044C">>,
     <<"U+042D", "U+044D">>, <<"U+042E", "U+044E">>, <<"U+042F", "U+044F">>,
     <<"U+0460", "U+0461">>, <<"U+0462", "U+0463">>, <<"U+0464", "U+0465">>,
     <<"U+0466", "U+0467">>, <<"U+0468", "U+0469">>, <<"U+046A", "U+046B">>,
     <<"U+046C", "U+046D">>, <<"U+046E", "U+046F">>, <<"U+0470", "U+0471">>,
     <<"U+0472", "U+0473">>, <<"U+0474", "U+0475">>, <<"U+0476", "U+0477">>,
     <<"U+0478", "U+0479">>, <<"U+047A", "U+047B">>, <<"U+047C", "U+047D">>,
     <<"U+047E", "U+047F">>, <<"U+0480", "U+0481">>, <<"U+048A", "U+048B">>,
     <<"U+048C", "U+048D">>, <<"U+048E", "U+048F">>, <<"U+0490", "U+0491">>,
     <<"U+0492", "U+0493">>, <<"U+0494", "U+0495">>, <<"U+0496", "U+0497">>,
     <<"U+0498", "U+0499">>, <<"U+049A", "U+049B">>, <<"U+049C", "U+049D">>,
     <<"U+049E", "U+049F">>, <<"U+04A0", "U+04A1">>, <<"U+04A2", "U+04A3">>,
     <<"U+04A4", "U+04A5">>, <<"U+04A6", "U+04A7">>, <<"U+04A8", "U+04A9">>,
     <<"U+04AA", "U+04AB">>, <<"U+04AC", "U+04AD">>, <<"U+04AE", "U+04AF">>,
     <<"U+04B0", "U+04B1">>, <<"U+04B2", "U+04B3">>, <<"U+04B4", "U+04B5">>,
     <<"U+04B6", "U+04B7">>, <<"U+04B8", "U+04B9">>, <<"U+04BA", "U+04BB">>,
     <<"U+04BC", "U+04BD">>, <<"U+04BE", "U+04BF">>, <<"U+04C0", "U+04CF">>,
     <<"U+04C1", "U+04C2">>, <<"U+04C3", "U+04C4">>, <<"U+04C5", "U+04C6">>,
     <<"U+04C7", "U+04C8">>, <<"U+04C9", "U+04CA">>, <<"U+04CB", "U+04CC">>,
     <<"U+04CD", "U+04CE">>, <<"U+04D0", "U+04D1">>, <<"U+04D2", "U+04D3">>,
     <<"U+04D4", "U+04D5">>, <<"U+04D6", "U+04D7">>, <<"U+04D8", "U+04D9">>,
     <<"U+04DA", "U+04DB">>, <<"U+04DC", "U+04DD">>, <<"U+04DE", "U+04DF">>,
     <<"U+04E0", "U+04E1">>, <<"U+04E2", "U+04E3">>, <<"U+04E4", "U+04E5">>,
     <<"U+04E6", "U+04E7">>, <<"U+04E8", "U+04E9">>, <<"U+04EA", "U+04EB">>,
     <<"U+04EC", "U+04ED">>, <<"U+04EE", "U+04EF">>, <<"U+04F0", "U+04F1">>,
     <<"U+04F2", "U+04F3">>, <<"U+04F4", "U+04F5">>, <<"U+04F6", "U+04F7">>,
     <<"U+04F8", "U+04F9">>, <<"U+04FA", "U+04FB">>, <<"U+04FC", "U+04FD">>,
     <<"U+04FE", "U+04FF">>, <<"U+0500", "U+0501">>, <<"U+0502", "U+0503">>,
     <<"U+0504", "U+0505">>, <<"U+0506", "U+0507">>, <<"U+0508", "U+0509">>,
     <<"U+050A", "U+050B">>, <<"U+050C", "U+050D">>, <<"U+050E", "U+050F">>,
     <<"U+0510", "U+0511">>, <<"U+0512", "U+0513">>, <<"U+0514", "U+0515">>,
     <<"U+0516", "U+0517">>, <<"U+0518", "U+0519">>, <<"U+051A", "U+051B">>,
     <<"U+051C", "U+051D">>, <<"U+051E", "U+051F">>, <<"U+0520", "U+0521">>,
     <<"U+0522", "U+0523">>, <<"U+0524", "U+0525">>, <<"U+0526", "U+0527">>,
     <<"U+0528", "U+0529">>, <<"U+052A", "U+052B">>, <<"U+052C", "U+052D">>,
     <<"U+052E", "U+052F">>, <<"U+0531", "U+0561">>, <<"U+0532", "U+0562">>,
     <<"U+0533", "U+0563">>, <<"U+0534", "U+0564">>, <<"U+0535", "U+0565">>,
     <<"U+0536", "U+0566">>, <<"U+0537", "U+0567">>, <<"U+0538", "U+0568">>,
     <<"U+0539", "U+0569">>, <<"U+053A", "U+056A">>, <<"U+053B", "U+056B">>,
     <<"U+053C", "U+056C">>, <<"U+053D", "U+056D">>, <<"U+053E", "U+056E">>,
     <<"U+053F", "U+056F">>, <<"U+0540", "U+0570">>, <<"U+0541", "U+0571">>,
     <<"U+0542", "U+0572">>, <<"U+0543", "U+0573">>, <<"U+0544", "U+0574">>,
     <<"U+0545", "U+0575">>, <<"U+0546", "U+0576">>, <<"U+0547", "U+0577">>,
     <<"U+0548", "U+0578">>, <<"U+0549", "U+0579">>, <<"U+054A", "U+057A">>,
     <<"U+054B", "U+057B">>, <<"U+054C", "U+057C">>, <<"U+054D", "U+057D">>,
     <<"U+054E", "U+057E">>, <<"U+054F", "U+057F">>, <<"U+0550", "U+0580">>,
     <<"U+0551", "U+0581">>, <<"U+0552", "U+0582">>, <<"U+0553", "U+0583">>,
     <<"U+0554", "U+0584">>, <<"U+0555", "U+0585">>, <<"U+0556", "U+0586">>,
     <<"U+10A0", "U+2D00">>, <<"U+10A1", "U+2D01">>, <<"U+10A2", "U+2D02">>,
     <<"U+10A3", "U+2D03">>, <<"U+10A4", "U+2D04">>, <<"U+10A5", "U+2D05">>,
     <<"U+10A6", "U+2D06">>, <<"U+10A7", "U+2D07">>, <<"U+10A8", "U+2D08">>,
     <<"U+10A9", "U+2D09">>, <<"U+10AA", "U+2D0A">>, <<"U+10AB", "U+2D0B">>,
     <<"U+10AC", "U+2D0C">>, <<"U+10AD", "U+2D0D">>, <<"U+10AE", "U+2D0E">>,
     <<"U+10AF", "U+2D0F">>, <<"U+10B0", "U+2D10">>, <<"U+10B1", "U+2D11">>,
     <<"U+10B2", "U+2D12">>, <<"U+10B3", "U+2D13">>, <<"U+10B4", "U+2D14">>,
     <<"U+10B5", "U+2D15">>, <<"U+10B6", "U+2D16">>, <<"U+10B7", "U+2D17">>,
     <<"U+10B8", "U+2D18">>, <<"U+10B9", "U+2D19">>, <<"U+10BA", "U+2D1A">>,
     <<"U+10BB", "U+2D1B">>, <<"U+10BC", "U+2D1C">>, <<"U+10BD", "U+2D1D">>,
     <<"U+10BE", "U+2D1E">>, <<"U+10BF", "U+2D1F">>, <<"U+10C0", "U+2D20">>,
     <<"U+10C1", "U+2D21">>, <<"U+10C2", "U+2D22">>, <<"U+10C3", "U+2D23">>,
     <<"U+10C4", "U+2D24">>, <<"U+10C5", "U+2D25">>, <<"U+10C7", "U+2D27">>,
     <<"U+10CD", "U+2D2D">>, <<"U+13A0", "U+AB70">>, <<"U+13A1", "U+AB71">>,
     <<"U+13A2", "U+AB72">>, <<"U+13A3", "U+AB73">>, <<"U+13A4", "U+AB74">>,
     <<"U+13A5", "U+AB75">>, <<"U+13A6", "U+AB76">>, <<"U+13A7", "U+AB77">>,
     <<"U+13A8", "U+AB78">>, <<"U+13A9", "U+AB79">>, <<"U+13AA", "U+AB7A">>,
     <<"U+13AB", "U+AB7B">>, <<"U+13AC", "U+AB7C">>, <<"U+13AD", "U+AB7D">>,
     <<"U+13AE", "U+AB7E">>, <<"U+13AF", "U+AB7F">>, <<"U+13B0", "U+AB80">>,
     <<"U+13B1", "U+AB81">>, <<"U+13B2", "U+AB82">>, <<"U+13B3", "U+AB83">>,
     <<"U+13B4", "U+AB84">>, <<"U+13B5", "U+AB85">>, <<"U+13B6", "U+AB86">>,
     <<"U+13B7", "U+AB87">>, <<"U+13B8", "U+AB88">>, <<"U+13B9", "U+AB89">>,
     <<"U+13BA", "U+AB8A">>, <<"U+13BB", "U+AB8B">>, <<"U+13BC", "U+AB8C">>,
     <<"U+13BD", "U+AB8D">>, <<"U+13BE", "U+AB8E">>, <<"U+13BF", "U+AB8F">>,
     <<"U+13C0", "U+AB90">>, <<"U+13C1", "U+AB91">>, <<"U+13C2", "U+AB92">>,
     <<"U+13C3", "U+AB93">>, <<"U+13C4", "U+AB94">>, <<"U+13C5", "U+AB95">>,
     <<"U+13C6", "U+AB96">>, <<"U+13C7", "U+AB97">>, <<"U+13C8", "U+AB98">>,
     <<"U+13C9", "U+AB99">>, <<"U+13CA", "U+AB9A">>, <<"U+13CB", "U+AB9B">>,
     <<"U+13CC", "U+AB9C">>, <<"U+13CD", "U+AB9D">>, <<"U+13CE", "U+AB9E">>,
     <<"U+13CF", "U+AB9F">>, <<"U+13D0", "U+ABA0">>, <<"U+13D1", "U+ABA1">>,
     <<"U+13D2", "U+ABA2">>, <<"U+13D3", "U+ABA3">>, <<"U+13D4", "U+ABA4">>,
     <<"U+13D5", "U+ABA5">>, <<"U+13D6", "U+ABA6">>, <<"U+13D7", "U+ABA7">>,
     <<"U+13D8", "U+ABA8">>, <<"U+13D9", "U+ABA9">>, <<"U+13DA", "U+ABAA">>,
     <<"U+13DB", "U+ABAB">>, <<"U+13DC", "U+ABAC">>, <<"U+13DD", "U+ABAD">>,
     <<"U+13DE", "U+ABAE">>, <<"U+13DF", "U+ABAF">>, <<"U+13E0", "U+ABB0">>,
     <<"U+13E1", "U+ABB1">>, <<"U+13E2", "U+ABB2">>, <<"U+13E3", "U+ABB3">>,
     <<"U+13E4", "U+ABB4">>, <<"U+13E5", "U+ABB5">>, <<"U+13E6", "U+ABB6">>,
     <<"U+13E7", "U+ABB7">>, <<"U+13E8", "U+ABB8">>, <<"U+13E9", "U+ABB9">>,
     <<"U+13EA", "U+ABBA">>, <<"U+13EB", "U+ABBB">>, <<"U+13EC", "U+ABBC">>,
     <<"U+13ED", "U+ABBD">>, <<"U+13EE", "U+ABBE">>, <<"U+13EF", "U+ABBF">>,
     <<"U+13F0", "U+13F8">>, <<"U+13F1", "U+13F9">>, <<"U+13F2", "U+13FA">>,
     <<"U+13F3", "U+13FB">>, <<"U+13F4", "U+13FC">>, <<"U+13F5", "U+13FD">>,
     <<"U+1C90", "U+10D0">>, <<"U+1C91", "U+10D1">>, <<"U+1C92", "U+10D2">>,
     <<"U+1C93", "U+10D3">>, <<"U+1C94", "U+10D4">>, <<"U+1C95", "U+10D5">>,
     <<"U+1C96", "U+10D6">>, <<"U+1C97", "U+10D7">>, <<"U+1C98", "U+10D8">>,
     <<"U+1C99", "U+10D9">>, <<"U+1C9A", "U+10DA">>, <<"U+1C9B", "U+10DB">>,
     <<"U+1C9C", "U+10DC">>, <<"U+1C9D", "U+10DD">>, <<"U+1C9E", "U+10DE">>,
     <<"U+1C9F", "U+10DF">>, <<"U+1CA0", "U+10E0">>, <<"U+1CA1", "U+10E1">>,
     <<"U+1CA2", "U+10E2">>, <<"U+1CA3", "U+10E3">>, <<"U+1CA4", "U+10E4">>,
     <<"U+1CA5", "U+10E5">>, <<"U+1CA6", "U+10E6">>, <<"U+1CA7", "U+10E7">>,
     <<"U+1CA8", "U+10E8">>, <<"U+1CA9", "U+10E9">>, <<"U+1CAA", "U+10EA">>,
     <<"U+1CAB", "U+10EB">>, <<"U+1CAC", "U+10EC">>, <<"U+1CAD", "U+10ED">>,
     <<"U+1CAE", "U+10EE">>, <<"U+1CAF", "U+10EF">>, <<"U+1CB0", "U+10F0">>,
     <<"U+1CB1", "U+10F1">>, <<"U+1CB2", "U+10F2">>, <<"U+1CB3", "U+10F3">>,
     <<"U+1CB4", "U+10F4">>, <<"U+1CB5", "U+10F5">>, <<"U+1CB6", "U+10F6">>,
     <<"U+1CB7", "U+10F7">>, <<"U+1CB8", "U+10F8">>, <<"U+1CB9", "U+10F9">>,
     <<"U+1CBA", "U+10FA">>, <<"U+1CBD", "U+10FD">>, <<"U+1CBE", "U+10FE">>,
     <<"U+1CBF", "U+10FF">>, <<"U+1E00", "U+1E01">>, <<"U+1E02", "U+1E03">>,
     <<"U+1E04", "U+1E05">>, <<"U+1E06", "U+1E07">>, <<"U+1E08", "U+1E09">>,
     <<"U+1E0A", "U+1E0B">>, <<"U+1E0C", "U+1E0D">>, <<"U+1E0E", "U+1E0F">>,
     <<"U+1E10", "U+1E11">>, <<"U+1E12", "U+1E13">>, <<"U+1E14", "U+1E15">>,
     <<"U+1E16", "U+1E17">>, <<"U+1E18", "U+1E19">>, <<"U+1E1A", "U+1E1B">>,
     <<"U+1E1C", "U+1E1D">>, <<"U+1E1E", "U+1E1F">>, <<"U+1E20", "U+1E21">>,
     <<"U+1E22", "U+1E23">>, <<"U+1E24", "U+1E25">>, <<"U+1E26", "U+1E27">>,
     <<"U+1E28", "U+1E29">>, <<"U+1E2A", "U+1E2B">>, <<"U+1E2C", "U+1E2D">>,
     <<"U+1E2E", "U+1E2F">>, <<"U+1E30", "U+1E31">>, <<"U+1E32", "U+1E33">>,
     <<"U+1E34", "U+1E35">>, <<"U+1E36", "U+1E37">>, <<"U+1E38", "U+1E39">>,
     <<"U+1E3A", "U+1E3B">>, <<"U+1E3C", "U+1E3D">>, <<"U+1E3E", "U+1E3F">>,
     <<"U+1E40", "U+1E41">>, <<"U+1E42", "U+1E43">>, <<"U+1E44", "U+1E45">>,
     <<"U+1E46", "U+1E47">>, <<"U+1E48", "U+1E49">>, <<"U+1E4A", "U+1E4B">>,
     <<"U+1E4C", "U+1E4D">>, <<"U+1E4E", "U+1E4F">>, <<"U+1E50", "U+1E51">>,
     <<"U+1E52", "U+1E53">>, <<"U+1E54", "U+1E55">>, <<"U+1E56", "U+1E57">>,
     <<"U+1E58", "U+1E59">>, <<"U+1E5A", "U+1E5B">>, <<"U+1E5C", "U+1E5D">>,
     <<"U+1E5E", "U+1E5F">>, <<"U+1E60", "U+1E61">>, <<"U+1E62", "U+1E63">>,
     <<"U+1E64", "U+1E65">>, <<"U+1E66", "U+1E67">>, <<"U+1E68", "U+1E69">>,
     <<"U+1E6A", "U+1E6B">>, <<"U+1E6C", "U+1E6D">>, <<"U+1E6E", "U+1E6F">>,
     <<"U+1E70", "U+1E71">>, <<"U+1E72", "U+1E73">>, <<"U+1E74", "U+1E75">>,
     <<"U+1E76", "U+1E77">>, <<"U+1E78", "U+1E79">>, <<"U+1E7A", "U+1E7B">>,
     <<"U+1E7C", "U+1E7D">>, <<"U+1E7E", "U+1E7F">>, <<"U+1E80", "U+1E81">>,
     <<"U+1E82", "U+1E83">>, <<"U+1E84", "U+1E85">>, <<"U+1E86", "U+1E87">>,
     <<"U+1E88", "U+1E89">>, <<"U+1E8A", "U+1E8B">>, <<"U+1E8C", "U+1E8D">>,
     <<"U+1E8E", "U+1E8F">>, <<"U+1E90", "U+1E91">>, <<"U+1E92", "U+1E93">>,
     <<"U+1E94", "U+1E95">>, <<"U+1E9E", "U+00DF">>, <<"U+1EA0", "U+1EA1">>,
     <<"U+1EA2", "U+1EA3">>, <<"U+1EA4", "U+1EA5">>, <<"U+1EA6", "U+1EA7">>,
     <<"U+1EA8", "U+1EA9">>, <<"U+1EAA", "U+1EAB">>, <<"U+1EAC", "U+1EAD">>,
     <<"U+1EAE", "U+1EAF">>, <<"U+1EB0", "U+1EB1">>, <<"U+1EB2", "U+1EB3">>,
     <<"U+1EB4", "U+1EB5">>, <<"U+1EB6", "U+1EB7">>, <<"U+1EB8", "U+1EB9">>,
     <<"U+1EBA", "U+1EBB">>, <<"U+1EBC", "U+1EBD">>, <<"U+1EBE", "U+1EBF">>,
     <<"U+1EC0", "U+1EC1">>, <<"U+1EC2", "U+1EC3">>, <<"U+1EC4", "U+1EC5">>,
     <<"U+1EC6", "U+1EC7">>, <<"U+1EC8", "U+1EC9">>, <<"U+1ECA", "U+1ECB">>,
     <<"U+1ECC", "U+1ECD">>, <<"U+1ECE", "U+1ECF">>, <<"U+1ED0", "U+1ED1">>,
     <<"U+1ED2", "U+1ED3">>, <<"U+1ED4", "U+1ED5">>, <<"U+1ED6", "U+1ED7">>,
     <<"U+1ED8", "U+1ED9">>, <<"U+1EDA", "U+1EDB">>, <<"U+1EDC", "U+1EDD">>,
     <<"U+1EDE", "U+1EDF">>, <<"U+1EE0", "U+1EE1">>, <<"U+1EE2", "U+1EE3">>,
     <<"U+1EE4", "U+1EE5">>, <<"U+1EE6", "U+1EE7">>, <<"U+1EE8", "U+1EE9">>,
     <<"U+1EEA", "U+1EEB">>, <<"U+1EEC", "U+1EED">>, <<"U+1EEE", "U+1EEF">>,
     <<"U+1EF0", "U+1EF1">>, <<"U+1EF2", "U+1EF3">>, <<"U+1EF4", "U+1EF5">>,
     <<"U+1EF6", "U+1EF7">>, <<"U+1EF8", "U+1EF9">>, <<"U+1EFA", "U+1EFB">>,
     <<"U+1EFC", "U+1EFD">>, <<"U+1EFE", "U+1EFF">>, <<"U+1F08", "U+1F00">>,
     <<"U+1F09", "U+1F01">>, <<"U+1F0A", "U+1F02">>, <<"U+1F0B", "U+1F03">>,
     <<"U+1F0C", "U+1F04">>, <<"U+1F0D", "U+1F05">>, <<"U+1F0E", "U+1F06">>,
     <<"U+1F0F", "U+1F07">>, <<"U+1F18", "U+1F10">>, <<"U+1F19", "U+1F11">>,
     <<"U+1F1A", "U+1F12">>, <<"U+1F1B", "U+1F13">>, <<"U+1F1C", "U+1F14">>,
     <<"U+1F1D", "U+1F15">>, <<"U+1F28", "U+1F20">>, <<"U+1F29", "U+1F21">>,
     <<"U+1F2A", "U+1F22">>, <<"U+1F2B", "U+1F23">>, <<"U+1F2C", "U+1F24">>,
     <<"U+1F2D", "U+1F25">>, <<"U+1F2E", "U+1F26">>, <<"U+1F2F", "U+1F27">>,
     <<"U+1F38", "U+1F30">>, <<"U+1F39", "U+1F31">>, <<"U+1F3A", "U+1F32">>,
     <<"U+1F3B", "U+1F33">>, <<"U+1F3C", "U+1F34">>, <<"U+1F3D", "U+1F35">>,
     <<"U+1F3E", "U+1F36">>, <<"U+1F3F", "U+1F37">>, <<"U+1F48", "U+1F40">>,
     <<"U+1F49", "U+1F41">>, <<"U+1F4A", "U+1F42">>, <<"U+1F4B", "U+1F43">>,
     <<"U+1F4C", "U+1F44">>, <<"U+1F4D", "U+1F45">>, <<"U+1F59", "U+1F51">>,
     <<"U+1F5B", "U+1F53">>, <<"U+1F5D", "U+1F55">>, <<"U+1F5F", "U+1F57">>,
     <<"U+1F68", "U+1F60">>, <<"U+1F69", "U+1F61">>, <<"U+1F6A", "U+1F62">>,
     <<"U+1F6B", "U+1F63">>, <<"U+1F6C", "U+1F64">>, <<"U+1F6D", "U+1F65">>,
     <<"U+1F6E", "U+1F66">>, <<"U+1F6F", "U+1F67">>, <<"U+1F88", "U+1F80">>,
     <<"U+1F89", "U+1F81">>, <<"U+1F8A", "U+1F82">>, <<"U+1F8B", "U+1F83">>,
     <<"U+1F8C", "U+1F84">>, <<"U+1F8D", "U+1F85">>, <<"U+1F8E", "U+1F86">>,
     <<"U+1F8F", "U+1F87">>, <<"U+1F98", "U+1F90">>, <<"U+1F99", "U+1F91">>,
     <<"U+1F9A", "U+1F92">>, <<"U+1F9B", "U+1F93">>, <<"U+1F9C", "U+1F94">>,
     <<"U+1F9D", "U+1F95">>, <<"U+1F9E", "U+1F96">>, <<"U+1F9F", "U+1F97">>,
     <<"U+1FA8", "U+1FA0">>, <<"U+1FA9", "U+1FA1">>, <<"U+1FAA", "U+1FA2">>,
     <<"U+1FAB", "U+1FA3">>, <<"U+1FAC", "U+1FA4">>, <<"U+1FAD", "U+1FA5">>,
     <<"U+1FAE", "U+1FA6">>, <<"U+1FAF", "U+1FA7">>, <<"U+1FB8", "U+1FB0">>,
     <<"U+1FB9", "U+1FB1">>, <<"U+1FBA", "U+1F70">>, <<"U+1FBB", "U+1F71">>,
     <<"U+1FBC", "U+1FB3">>, <<"U+1FC8", "U+1F72">>, <<"U+1FC9", "U+1F73">>,
     <<"U+1FCA", "U+1F74">>, <<"U+1FCB", "U+1F75">>, <<"U+1FCC", "U+1FC3">>,
     <<"U+1FD8", "U+1FD0">>, <<"U+1FD9", "U+1FD1">>, <<"U+1FDA", "U+1F76">>,
     <<"U+1FDB", "U+1F77">>, <<"U+1FE8", "U+1FE0">>, <<"U+1FE9", "U+1FE1">>,
     <<"U+1FEA", "U+1F7A">>, <<"U+1FEB", "U+1F7B">>, <<"U+1FEC", "U+1FE5">>,
     <<"U+1FF8", "U+1F78">>, <<"U+1FF9", "U+1F79">>, <<"U+1FFA", "U+1F7C">>,
     <<"U+1FFB", "U+1F7D">>, <<"U+1FFC", "U+1FF3">>, <<"U+2126", "U+03C9">>, <<"U+212A", "k">>,
     <<"U+212B", "U+00E5">>, <<"U+2132", "U+214E">>, <<"U+2160", "U+2170">>,
     <<"U+2161", "U+2171">>, <<"U+2162", "U+2172">>, <<"U+2163", "U+2173">>,
     <<"U+2164", "U+2174">>, <<"U+2165", "U+2175">>, <<"U+2166", "U+2176">>,
     <<"U+2167", "U+2177">>, <<"U+2168", "U+2178">>, <<"U+2169", "U+2179">>,
     <<"U+216A", "U+217A">>, <<"U+216B", "U+217B">>, <<"U+216C", "U+217C">>,
     <<"U+216D", "U+217D">>, <<"U+216E", "U+217E">>, <<"U+216F", "U+217F">>,
     <<"U+2183", "U+2184">>, <<"U+24B6", "U+24D0">>, <<"U+24B7", "U+24D1">>,
     <<"U+24B8", "U+24D2">>, <<"U+24B9", "U+24D3">>, <<"U+24BA", "U+24D4">>,
     <<"U+24BB", "U+24D5">>, <<"U+24BC", "U+24D6">>, <<"U+24BD", "U+24D7">>,
     <<"U+24BE", "U+24D8">>, <<"U+24BF", "U+24D9">>, <<"U+24C0", "U+24DA">>,
     <<"U+24C1", "U+24DB">>, <<"U+24C2", "U+24DC">>, <<"U+24C3", "U+24DD">>,
     <<"U+24C4", "U+24DE">>, <<"U+24C5", "U+24DF">>, <<"U+24C6", "U+24E0">>,
     <<"U+24C7", "U+24E1">>, <<"U+24C8", "U+24E2">>, <<"U+24C9", "U+24E3">>,
     <<"U+24CA", "U+24E4">>, <<"U+24CB", "U+24E5">>, <<"U+24CC", "U+24E6">>,
     <<"U+24CD", "U+24E7">>, <<"U+24CE", "U+24E8">>, <<"U+24CF", "U+24E9">>,
     <<"U+2C00", "U+2C30">>, <<"U+2C01", "U+2C31">>, <<"U+2C02", "U+2C32">>,
     <<"U+2C03", "U+2C33">>, <<"U+2C04", "U+2C34">>, <<"U+2C05", "U+2C35">>,
     <<"U+2C06", "U+2C36">>, <<"U+2C07", "U+2C37">>, <<"U+2C08", "U+2C38">>,
     <<"U+2C09", "U+2C39">>, <<"U+2C0A", "U+2C3A">>, <<"U+2C0B", "U+2C3B">>,
     <<"U+2C0C", "U+2C3C">>, <<"U+2C0D", "U+2C3D">>, <<"U+2C0E", "U+2C3E">>,
     <<"U+2C0F", "U+2C3F">>, <<"U+2C10", "U+2C40">>, <<"U+2C11", "U+2C41">>,
     <<"U+2C12", "U+2C42">>, <<"U+2C13", "U+2C43">>, <<"U+2C14", "U+2C44">>,
     <<"U+2C15", "U+2C45">>, <<"U+2C16", "U+2C46">>, <<"U+2C17", "U+2C47">>,
     <<"U+2C18", "U+2C48">>, <<"U+2C19", "U+2C49">>, <<"U+2C1A", "U+2C4A">>,
     <<"U+2C1B", "U+2C4B">>, <<"U+2C1C", "U+2C4C">>, <<"U+2C1D", "U+2C4D">>,
     <<"U+2C1E", "U+2C4E">>, <<"U+2C1F", "U+2C4F">>, <<"U+2C20", "U+2C50">>,
     <<"U+2C21", "U+2C51">>, <<"U+2C22", "U+2C52">>, <<"U+2C23", "U+2C53">>,
     <<"U+2C24", "U+2C54">>, <<"U+2C25", "U+2C55">>, <<"U+2C26", "U+2C56">>,
     <<"U+2C27", "U+2C57">>, <<"U+2C28", "U+2C58">>, <<"U+2C29", "U+2C59">>,
     <<"U+2C2A", "U+2C5A">>, <<"U+2C2B", "U+2C5B">>, <<"U+2C2C", "U+2C5C">>,
     <<"U+2C2D", "U+2C5D">>, <<"U+2C2E", "U+2C5E">>, <<"U+2C2F", "U+2C5F">>,
     <<"U+2C60", "U+2C61">>, <<"U+2C62", "U+026B">>, <<"U+2C63", "U+1D7D">>,
     <<"U+2C64", "U+027D">>, <<"U+2C67", "U+2C68">>, <<"U+2C69", "U+2C6A">>,
     <<"U+2C6B", "U+2C6C">>, <<"U+2C6D", "U+0251">>, <<"U+2C6E", "U+0271">>,
     <<"U+2C6F", "U+0250">>, <<"U+2C70", "U+0252">>, <<"U+2C72", "U+2C73">>,
     <<"U+2C75", "U+2C76">>, <<"U+2C7E", "U+023F">>, <<"U+2C7F", "U+0240">>,
     <<"U+2C80", "U+2C81">>, <<"U+2C82", "U+2C83">>, <<"U+2C84", "U+2C85">>,
     <<"U+2C86", "U+2C87">>, <<"U+2C88", "U+2C89">>, <<"U+2C8A", "U+2C8B">>,
     <<"U+2C8C", "U+2C8D">>, <<"U+2C8E", "U+2C8F">>, <<"U+2C90", "U+2C91">>,
     <<"U+2C92", "U+2C93">>, <<"U+2C94", "U+2C95">>, <<"U+2C96", "U+2C97">>,
     <<"U+2C98", "U+2C99">>, <<"U+2C9A", "U+2C9B">>, <<"U+2C9C", "U+2C9D">>,
     <<"U+2C9E", "U+2C9F">>, <<"U+2CA0", "U+2CA1">>, <<"U+2CA2", "U+2CA3">>,
     <<"U+2CA4", "U+2CA5">>, <<"U+2CA6", "U+2CA7">>, <<"U+2CA8", "U+2CA9">>,
     <<"U+2CAA", "U+2CAB">>, <<"U+2CAC", "U+2CAD">>, <<"U+2CAE", "U+2CAF">>,
     <<"U+2CB0", "U+2CB1">>, <<"U+2CB2", "U+2CB3">>, <<"U+2CB4", "U+2CB5">>,
     <<"U+2CB6", "U+2CB7">>, <<"U+2CB8", "U+2CB9">>, <<"U+2CBA", "U+2CBB">>,
     <<"U+2CBC", "U+2CBD">>, <<"U+2CBE", "U+2CBF">>, <<"U+2CC0", "U+2CC1">>,
     <<"U+2CC2", "U+2CC3">>, <<"U+2CC4", "U+2CC5">>, <<"U+2CC6", "U+2CC7">>,
     <<"U+2CC8", "U+2CC9">>, <<"U+2CCA", "U+2CCB">>, <<"U+2CCC", "U+2CCD">>,
     <<"U+2CCE", "U+2CCF">>, <<"U+2CD0", "U+2CD1">>, <<"U+2CD2", "U+2CD3">>,
     <<"U+2CD4", "U+2CD5">>, <<"U+2CD6", "U+2CD7">>, <<"U+2CD8", "U+2CD9">>,
     <<"U+2CDA", "U+2CDB">>, <<"U+2CDC", "U+2CDD">>, <<"U+2CDE", "U+2CDF">>,
     <<"U+2CE0", "U+2CE1">>, <<"U+2CE2", "U+2CE3">>, <<"U+2CEB", "U+2CEC">>,
     <<"U+2CED", "U+2CEE">>, <<"U+2CF2", "U+2CF3">>, <<"U+A640", "U+A641">>,
     <<"U+A642", "U+A643">>, <<"U+A644", "U+A645">>, <<"U+A646", "U+A647">>,
     <<"U+A648", "U+A649">>, <<"U+A64A", "U+A64B">>, <<"U+A64C", "U+A64D">>,
     <<"U+A64E", "U+A64F">>, <<"U+A650", "U+A651">>, <<"U+A652", "U+A653">>,
     <<"U+A654", "U+A655">>, <<"U+A656", "U+A657">>, <<"U+A658", "U+A659">>,
     <<"U+A65A", "U+A65B">>, <<"U+A65C", "U+A65D">>, <<"U+A65E", "U+A65F">>,
     <<"U+A660", "U+A661">>, <<"U+A662", "U+A663">>, <<"U+A664", "U+A665">>,
     <<"U+A666", "U+A667">>, <<"U+A668", "U+A669">>, <<"U+A66A", "U+A66B">>,
     <<"U+A66C", "U+A66D">>, <<"U+A680", "U+A681">>, <<"U+A682", "U+A683">>,
     <<"U+A684", "U+A685">>, <<"U+A686", "U+A687">>, <<"U+A688", "U+A689">>,
     <<"U+A68A", "U+A68B">>, <<"U+A68C", "U+A68D">>, <<"U+A68E", "U+A68F">>,
     <<"U+A690", "U+A691">>, <<"U+A692", "U+A693">>, <<"U+A694", "U+A695">>,
     <<"U+A696", "U+A697">>, <<"U+A698", "U+A699">>, <<"U+A69A", "U+A69B">>,
     <<"U+A722", "U+A723">>, <<"U+A724", "U+A725">>, <<"U+A726", "U+A727">>,
     <<"U+A728", "U+A729">>, <<"U+A72A", "U+A72B">>, <<"U+A72C", "U+A72D">>,
     <<"U+A72E", "U+A72F">>, <<"U+A732", "U+A733">>, <<"U+A734", "U+A735">>,
     <<"U+A736", "U+A737">>, <<"U+A738", "U+A739">>, <<"U+A73A", "U+A73B">>,
     <<"U+A73C", "U+A73D">>, <<"U+A73E", "U+A73F">>, <<"U+A740", "U+A741">>,
     <<"U+A742", "U+A743">>, <<"U+A744", "U+A745">>, <<"U+A746", "U+A747">>,
     <<"U+A748", "U+A749">>, <<"U+A74A", "U+A74B">>, <<"U+A74C", "U+A74D">>,
     <<"U+A74E", "U+A74F">>, <<"U+A750", "U+A751">>, <<"U+A752", "U+A753">>,
     <<"U+A754", "U+A755">>, <<"U+A756", "U+A757">>, <<"U+A758", "U+A759">>,
     <<"U+A75A", "U+A75B">>, <<"U+A75C", "U+A75D">>, <<"U+A75E", "U+A75F">>,
     <<"U+A760", "U+A761">>, <<"U+A762", "U+A763">>, <<"U+A764", "U+A765">>,
     <<"U+A766", "U+A767">>, <<"U+A768", "U+A769">>, <<"U+A76A", "U+A76B">>,
     <<"U+A76C", "U+A76D">>, <<"U+A76E", "U+A76F">>, <<"U+A779", "U+A77A">>,
     <<"U+A77B", "U+A77C">>, <<"U+A77D", "U+1D79">>, <<"U+A77E", "U+A77F">>,
     <<"U+A780", "U+A781">>, <<"U+A782", "U+A783">>, <<"U+A784", "U+A785">>,
     <<"U+A786", "U+A787">>, <<"U+A78B", "U+A78C">>, <<"U+A78D", "U+0265">>,
     <<"U+A790", "U+A791">>, <<"U+A792", "U+A793">>, <<"U+A796", "U+A797">>,
     <<"U+A798", "U+A799">>, <<"U+A79A", "U+A79B">>, <<"U+A79C", "U+A79D">>,
     <<"U+A79E", "U+A79F">>, <<"U+A7A0", "U+A7A1">>, <<"U+A7A2", "U+A7A3">>,
     <<"U+A7A4", "U+A7A5">>, <<"U+A7A6", "U+A7A7">>, <<"U+A7A8", "U+A7A9">>,
     <<"U+A7AA", "U+0266">>, <<"U+A7AB", "U+025C">>, <<"U+A7AC", "U+0261">>,
     <<"U+A7AD", "U+026C">>, <<"U+A7AE", "U+026A">>, <<"U+A7B0", "U+029E">>,
     <<"U+A7B1", "U+0287">>, <<"U+A7B2", "U+029D">>, <<"U+A7B3", "U+AB53">>,
     <<"U+A7B4", "U+A7B5">>, <<"U+A7B6", "U+A7B7">>, <<"U+A7B8", "U+A7B9">>,
     <<"U+A7BA", "U+A7BB">>, <<"U+A7BC", "U+A7BD">>, <<"U+A7BE", "U+A7BF">>,
     <<"U+A7C0", "U+A7C1">>, <<"U+A7C2", "U+A7C3">>, <<"U+A7C4", "U+A794">>,
     <<"U+A7C5", "U+0282">>, <<"U+A7C6", "U+1D8E">>, <<"U+A7C7", "U+A7C8">>,
     <<"U+A7C9", "U+A7CA">>, <<"U+A7D0", "U+A7D1">>, <<"U+A7D6", "U+A7D7">>,
     <<"U+A7D8", "U+A7D9">>, <<"U+A7F5", "U+A7F6">>, <<"U+FF21", "U+FF41">>,
     <<"U+FF22", "U+FF42">>, <<"U+FF23", "U+FF43">>, <<"U+FF24", "U+FF44">>,
     <<"U+FF25", "U+FF45">>, <<"U+FF26", "U+FF46">>, <<"U+FF27", "U+FF47">>,
     <<"U+FF28", "U+FF48">>, <<"U+FF29", "U+FF49">>, <<"U+FF2A", "U+FF4A">>,
     <<"U+FF2B", "U+FF4B">>, <<"U+FF2C", "U+FF4C">>, <<"U+FF2D", "U+FF4D">>,
     <<"U+FF2E", "U+FF4E">>, <<"U+FF2F", "U+FF4F">>, <<"U+FF30", "U+FF50">>,
     <<"U+FF31", "U+FF51">>, <<"U+FF32", "U+FF52">>, <<"U+FF33", "U+FF53">>,
     <<"U+FF34", "U+FF54">>, <<"U+FF35", "U+FF55">>, <<"U+FF36", "U+FF56">>,
     <<"U+FF37", "U+FF57">>, <<"U+FF38", "U+FF58">>, <<"U+FF39", "U+FF59">>,
     <<"U+FF3A", "U+FF5A">>, <<"U+10400", "U+10428">>, <<"U+10401", "U+10429">>,
     <<"U+10402", "U+1042A">>, <<"U+10403", "U+1042B">>, <<"U+10404", "U+1042C">>,
     <<"U+10405", "U+1042D">>, <<"U+10406", "U+1042E">>, <<"U+10407", "U+1042F">>,
     <<"U+10408", "U+10430">>, <<"U+10409", "U+10431">>, <<"U+1040A", "U+10432">>,
     <<"U+1040B", "U+10433">>, <<"U+1040C", "U+10434">>, <<"U+1040D", "U+10435">>,
     <<"U+1040E", "U+10436">>, <<"U+1040F", "U+10437">>, <<"U+10410", "U+10438">>,
     <<"U+10411", "U+10439">>, <<"U+10412", "U+1043A">>, <<"U+10413", "U+1043B">>,
     <<"U+10414", "U+1043C">>, <<"U+10415", "U+1043D">>, <<"U+10416", "U+1043E">>,
     <<"U+10417", "U+1043F">>, <<"U+10418", "U+10440">>, <<"U+10419", "U+10441">>,
     <<"U+1041A", "U+10442">>, <<"U+1041B", "U+10443">>, <<"U+1041C", "U+10444">>,
     <<"U+1041D", "U+10445">>, <<"U+1041E", "U+10446">>, <<"U+1041F", "U+10447">>,
     <<"U+10420", "U+10448">>, <<"U+10421", "U+10449">>, <<"U+10422", "U+1044A">>,
     <<"U+10423", "U+1044B">>, <<"U+10424", "U+1044C">>, <<"U+10425", "U+1044D">>,
     <<"U+10426", "U+1044E">>, <<"U+10427", "U+1044F">>, <<"U+104B0", "U+104D8">>,
     <<"U+104B1", "U+104D9">>, <<"U+104B2", "U+104DA">>, <<"U+104B3", "U+104DB">>,
     <<"U+104B4", "U+104DC">>, <<"U+104B5", "U+104DD">>, <<"U+104B6", "U+104DE">>,
     <<"U+104B7", "U+104DF">>, <<"U+104B8", "U+104E0">>, <<"U+104B9", "U+104E1">>,
     <<"U+104BA", "U+104E2">>, <<"U+104BB", "U+104E3">>, <<"U+104BC", "U+104E4">>,
     <<"U+104BD", "U+104E5">>, <<"U+104BE", "U+104E6">>, <<"U+104BF", "U+104E7">>,
     <<"U+104C0", "U+104E8">>, <<"U+104C1", "U+104E9">>, <<"U+104C2", "U+104EA">>,
     <<"U+104C3", "U+104EB">>, <<"U+104C4", "U+104EC">>, <<"U+104C5", "U+104ED">>,
     <<"U+104C6", "U+104EE">>, <<"U+104C7", "U+104EF">>, <<"U+104C8", "U+104F0">>,
     <<"U+104C9", "U+104F1">>, <<"U+104CA", "U+104F2">>, <<"U+104CB", "U+104F3">>,
     <<"U+104CC", "U+104F4">>, <<"U+104CD", "U+104F5">>, <<"U+104CE", "U+104F6">>,
     <<"U+104CF", "U+104F7">>, <<"U+104D0", "U+104F8">>, <<"U+104D1", "U+104F9">>,
     <<"U+104D2", "U+104FA">>, <<"U+104D3", "U+104FB">>, <<"U+10570", "U+10597">>,
     <<"U+10571", "U+10598">>, <<"U+10572", "U+10599">>, <<"U+10573", "U+1059A">>,
     <<"U+10574", "U+1059B">>, <<"U+10575", "U+1059C">>, <<"U+10576", "U+1059D">>,
     <<"U+10577", "U+1059E">>, <<"U+10578", "U+1059F">>, <<"U+10579", "U+105A0">>,
     <<"U+1057A", "U+105A1">>, <<"U+1057C", "U+105A3">>, <<"U+1057D", "U+105A4">>,
     <<"U+1057E", "U+105A5">>, <<"U+1057F", "U+105A6">>, <<"U+10580", "U+105A7">>,
     <<"U+10581", "U+105A8">>, <<"U+10582", "U+105A9">>, <<"U+10583", "U+105AA">>,
     <<"U+10584", "U+105AB">>, <<"U+10585", "U+105AC">>, <<"U+10586", "U+105AD">>,
     <<"U+10587", "U+105AE">>, <<"U+10588", "U+105AF">>, <<"U+10589", "U+105B0">>,
     <<"U+1058A", "U+105B1">>, <<"U+1058C", "U+105B3">>, <<"U+1058D", "U+105B4">>,
     <<"U+1058E", "U+105B5">>, <<"U+1058F", "U+105B6">>, <<"U+10590", "U+105B7">>,
     <<"U+10591", "U+105B8">>, <<"U+10592", "U+105B9">>, <<"U+10594", "U+105BB">>,
     <<"U+10595", "U+105BC">>, <<"U+10C80", "U+10CC0">>, <<"U+10C81", "U+10CC1">>,
     <<"U+10C82", "U+10CC2">>, <<"U+10C83", "U+10CC3">>, <<"U+10C84", "U+10CC4">>,
     <<"U+10C85", "U+10CC5">>, <<"U+10C86", "U+10CC6">>, <<"U+10C87", "U+10CC7">>,
     <<"U+10C88", "U+10CC8">>, <<"U+10C89", "U+10CC9">>, <<"U+10C8A", "U+10CCA">>,
     <<"U+10C8B", "U+10CCB">>, <<"U+10C8C", "U+10CCC">>, <<"U+10C8D", "U+10CCD">>,
     <<"U+10C8E", "U+10CCE">>, <<"U+10C8F", "U+10CCF">>, <<"U+10C90", "U+10CD0">>,
     <<"U+10C91", "U+10CD1">>, <<"U+10C92", "U+10CD2">>, <<"U+10C93", "U+10CD3">>,
     <<"U+10C94", "U+10CD4">>, <<"U+10C95", "U+10CD5">>, <<"U+10C96", "U+10CD6">>,
     <<"U+10C97", "U+10CD7">>, <<"U+10C98", "U+10CD8">>, <<"U+10C99", "U+10CD9">>,
     <<"U+10C9A", "U+10CDA">>, <<"U+10C9B", "U+10CDB">>, <<"U+10C9C", "U+10CDC">>,
     <<"U+10C9D", "U+10CDD">>, <<"U+10C9E", "U+10CDE">>, <<"U+10C9F", "U+10CDF">>,
     <<"U+10CA0", "U+10CE0">>, <<"U+10CA1", "U+10CE1">>, <<"U+10CA2", "U+10CE2">>,
     <<"U+10CA3", "U+10CE3">>, <<"U+10CA4", "U+10CE4">>, <<"U+10CA5", "U+10CE5">>,
     <<"U+10CA6", "U+10CE6">>, <<"U+10CA7", "U+10CE7">>, <<"U+10CA8", "U+10CE8">>,
     <<"U+10CA9", "U+10CE9">>, <<"U+10CAA", "U+10CEA">>, <<"U+10CAB", "U+10CEB">>,
     <<"U+10CAC", "U+10CEC">>, <<"U+10CAD", "U+10CED">>, <<"U+10CAE", "U+10CEE">>,
     <<"U+10CAF", "U+10CEF">>, <<"U+10CB0", "U+10CF0">>, <<"U+10CB1", "U+10CF1">>,
     <<"U+10CB2", "U+10CF2">>, <<"U+118A0", "U+118C0">>, <<"U+118A1", "U+118C1">>,
     <<"U+118A2", "U+118C2">>, <<"U+118A3", "U+118C3">>, <<"U+118A4", "U+118C4">>,
     <<"U+118A5", "U+118C5">>, <<"U+118A6", "U+118C6">>, <<"U+118A7", "U+118C7">>,
     <<"U+118A8", "U+118C8">>, <<"U+118A9", "U+118C9">>, <<"U+118AA", "U+118CA">>,
     <<"U+118AB", "U+118CB">>, <<"U+118AC", "U+118CC">>, <<"U+118AD", "U+118CD">>,
     <<"U+118AE", "U+118CE">>, <<"U+118AF", "U+118CF">>, <<"U+118B0", "U+118D0">>,
     <<"U+118B1", "U+118D1">>, <<"U+118B2", "U+118D2">>, <<"U+118B3", "U+118D3">>,
     <<"U+118B4", "U+118D4">>, <<"U+118B5", "U+118D5">>, <<"U+118B6", "U+118D6">>,
     <<"U+118B7", "U+118D7">>, <<"U+118B8", "U+118D8">>, <<"U+118B9", "U+118D9">>,
     <<"U+118BA", "U+118DA">>, <<"U+118BB", "U+118DB">>, <<"U+118BC", "U+118DC">>,
     <<"U+118BD", "U+118DD">>, <<"U+118BE", "U+118DE">>, <<"U+118BF", "U+118DF">>,
     <<"U+16E40", "U+16E60">>, <<"U+16E41", "U+16E61">>, <<"U+16E42", "U+16E62">>,
     <<"U+16E43", "U+16E63">>, <<"U+16E44", "U+16E64">>, <<"U+16E45", "U+16E65">>,
     <<"U+16E46", "U+16E66">>, <<"U+16E47", "U+16E67">>, <<"U+16E48", "U+16E68">>,
     <<"U+16E49", "U+16E69">>, <<"U+16E4A", "U+16E6A">>, <<"U+16E4B", "U+16E6B">>,
     <<"U+16E4C", "U+16E6C">>, <<"U+16E4D", "U+16E6D">>, <<"U+16E4E", "U+16E6E">>,
     <<"U+16E4F", "U+16E6F">>, <<"U+16E50", "U+16E70">>, <<"U+16E51", "U+16E71">>,
     <<"U+16E52", "U+16E72">>, <<"U+16E53", "U+16E73">>, <<"U+16E54", "U+16E74">>,
     <<"U+16E55", "U+16E75">>, <<"U+16E56", "U+16E76">>, <<"U+16E57", "U+16E77">>,
     <<"U+16E58", "U+16E78">>, <<"U+16E59", "U+16E79">>, <<"U+16E5A", "U+16E7A">>,
     <<"U+16E5B", "U+16E7B">>, <<"U+16E5C", "U+16E7C">>, <<"U+16E5D", "U+16E7D">>,
     <<"U+16E5E", "U+16E7E">>, <<"U+16E5F", "U+16E7F">>, <<"U+1E900", "U+1E922">>,
     <<"U+1E901", "U+1E923">>, <<"U+1E902", "U+1E924">>, <<"U+1E903", "U+1E925">>,
     <<"U+1E904", "U+1E926">>, <<"U+1E905", "U+1E927">>, <<"U+1E906", "U+1E928">>,
     <<"U+1E907", "U+1E929">>, <<"U+1E908", "U+1E92A">>, <<"U+1E909", "U+1E92B">>,
     <<"U+1E90A", "U+1E92C">>, <<"U+1E90B", "U+1E92D">>, <<"U+1E90C", "U+1E92E">>,
     <<"U+1E90D", "U+1E92F">>, <<"U+1E90E", "U+1E930">>, <<"U+1E90F", "U+1E931">>,
     <<"U+1E910", "U+1E932">>, <<"U+1E911", "U+1E933">>, <<"U+1E912", "U+1E934">>,
     <<"U+1E913", "U+1E935">>, <<"U+1E914", "U+1E936">>, <<"U+1E915", "U+1E937">>,
     <<"U+1E916", "U+1E938">>, <<"U+1E917", "U+1E939">>, <<"U+1E918", "U+1E93A">>,
     <<"U+1E919", "U+1E93B">>, <<"U+1E91A", "U+1E93C">>, <<"U+1E91B", "U+1E93D">>,
     <<"U+1E91C", "U+1E93E">>, <<"U+1E91D", "U+1E93F">>, <<"U+1E91E", "U+1E940">>,
     <<"U+1E91F", "U+1E941">>, <<"U+1E920", "U+1E942">>, <<"U+1E921", "U+1E943">>}

\* the one character that lower-cases to two: i and a combining dot above
DottedCapitalI == "U+0130"
\* the one character whose lower case depends on its neighbours
CapitalSigma == "U+03A3"

AsciiLetters ==
    {"a", "b", "c", "d", "e", "f", "g", "h", "i", "j", "k", "l", "m", "n", "o", "p", "q", "r", "s", "t", "u", "v", "w", "x", "y", "z"}
    \cup
    {"A", "B", "C", "D", "E", "F", "G", "H", "I", "J", "K", "L", "M", "N", "O", "P", "Q", "R", "S", "T", "U", "V", "W", "X", "Y", "Z"}

UpperHexDigits == <<"0", "1", "2", "3", "4", "5", "6", "7",
                    "8", "9", "A", "B", "C", "D", "E", "F">>
RECURSIVE HexName(_, _)
HexName(n, width) ==
    IF n = 0 /\ width <= 0 THEN ""
    ELSE HexName(n \div 16, width - 1) \o UpperHexDigits[(n % 16) + 1]
\* the character with code point n, for n >= 128
CodePoint(n) == "U+" \o HexName(n, 4)
CharsIn(ranges) == UNION {{CodePoint(n) : n \in r[1]..r[2]} : r \in ranges}

\* The two character classes of the final sigma rule, as ranges of code
\* points from 128 on (the Unicode 14.0 tables of Python 3.11): the
\* case-ignorable characters, and the cased ones that are not case-ignorable.
CaseIgnorableRanges ==
    {<<168, 168>>, <<173, 173>>, <<175, 175>>, <<180, 180>>, <<183, 184>>, <<688, 879>>,
     <<884, 885>>, <<890, 890>>, <<900, 901>>, <<903, 903>>, <<1155, 1161>>, <<1369, 1369>>,
     <<1375, 1375>>, <<1425, 1469>>, <<1471, 1471>>, <<1473, 1474>>, <<1476, 1477>>,
     <<1479, 1479>>, <<1524, 1524>>, <<1536, 1541>>, <<1552, 1562>>, <<1564, 1564>>,
     <<1600, 1600>>, <<1611, 1631>>, <<1648, 1648>>, <<1750, 1757>>, <<1759, 1768>>,
     <<1770, 1773>>, <<1807, 1807>>, <<1809, 1809>>, <<1840, 1866>>, <<1958, 1968>>,
     <<2027, 2037>>, <<2042, 2042>>, <<2045, 2045>>, <<2070, 2093>>, <<2137, 2139>>,
     <<2184, 2184>>, <<2192, 2193>>, <<2200, 2207>>, <<2249, 2306>>, <<2362, 2362>>,
     <<2364, 2364>>, <<2369, 2376>>, <<2381, 2381>>, <<2385, 2391>>, <<2402, 2403>>,
     <<2417, 2417>>, <<2433, 2433>>, <<2492, 2492>>, <<2497, 2500>>, <<2509, 2509>>,
     <<2530, 2531>>, <<2558, 2558>>, <<2561, 2562>>, <<2620, 2620>>, <<2625, 2626>>,
     <<2631, 2632>>, <<2635, 2637>>, <<2641, 2641>>, <<2672, 2673>>, <<2677, 2677>>,
     <<2689, 2690>>, <<2748, 2748>>, <<2753, 2757>>, <<2759, 2760>>, <<2765, 2765>>,
     <<2786, 2787>>, <<2810, 2815>>, <<2817, 2817>>, <<2876, 2876>>, <<2879, 2879>>,
     <<2881, 2884>>, <<2893, 2893>>, <<2901, 2902>>, <<2914, 2915>>, <<2946, 2946>>,
     <<3008, 3008>>, <<3021, 3021>>, <<3072, 3072>>, <<3076, 3076>>, <<3132, 3132>>,
     <<3134, 3136>>, <<3142, 3144>>, <<3146, 3149>>, <<3157, 3158>>, <<3170, 3171>>,
     <<3201, 3201>>, <<3260, 3260>>, <<3263, 3263>>, <<3270, 3270>>, <<3276, 3277>>,
     <<3298, 3299>>, <<3328, 3329>>, <<3387, 3388>>, <<3393, 3396>>, <<3405, 3405>>,
     <<3426, 3427>>, <<3457, 3457>>, <<3530, 3530>>, <<3538, 3540>>, <<3542, 3542>>,
     <<3633, 3633>>, <<3636, 3642>>, <<3654, 3662>>, <<3761, 3761>>, <<3764, 3772>>,
     <<3782, 3782>>, <<3784, 3789>>, <<3864, 3865>>, <<3893, 3893>>, <<3895, 3895>>,
     <<3897, 3897>>, <<3953, 3966>>, <<3968, 3972>>, <<3974, 3975>>, <<3981, 3991>>,
     <<3993, 4028>>, <<4038, 4038>>, <<4141, 4144>>, <<4146, 4151>>, <<4153, 4154>>,
     <<4157, 4158>>, <<4184, 4185>>, <<4190, 4192>>, <<4209, 4212>>, <<4226, 4226>>,
     <<4229, 4230>>, <<4237, 4237>>, <<4253, 4253>>, <<4348, 4348>>, <<4957, 4959>>,
     <<5906, 5908>>, <<5938, 5939>>, <<5970, 5971>>, <<6002, 6003>>, <<6068, 6069>>,
     <<6071, 6077>>, <<6086, 6086>>, <<6089, 6099>>, <<6103, 6103>>, <<6109, 6109>>,
     <<6155, 6159>>, <<6211, 6211>>, <<6277, 6278>>, <<6313, 6313>>, <<6432, 6434>>,
     <<6439, 6440>>, <<6450, 6450>>, <<6457, 6459>>, <<6679, 6680>>, <<6683, 6683>>,
     <<6742, 6742>>, <<6744, 6750>>, <<6752, 6752>>, <<6754, 6754>>, <<6757, 6764>>,
     <<6771, 6780>>, <<6783, 6783>>, <<6823, 6823>>, <<6832, 6862>>, <<6912, 6915>>,
     <<6964, 6964>>, <<6966, 6970>>, <<6972, 6972>>, <<6978, 6978>>, <<7019, 7027>>,
     <<7040, 7041>>, <<7074, 7077>>, <<7080, 7081>>, <<7083, 7085>>, <<7142, 7142>>,
     <<7144, 7145>>, <<7149, 7149>>, <<7151, 7153>>, <<7212, 7219>>, <<7222, 7223>>,
     <<7288, 7293>>, <<7376, 7378>>, <<7380, 7392>>, <<7394, 7400>>, <<7405, 7405>>,
     <<7412, 7412>>, <<7416, 7417>>, <<7468, 7530>>, <<7544, 7544>>, <<7579, 7679>>,
     <<8125, 8125>>, <<8127, 8129>>, <<8141, 8143>>, <<8157, 8159>>, <<8173, 8175>>,
     <<8189, 8190>>, <<8203, 8207>>, <<8216, 8217>>, <<8228, 8228>>, <<8231, 8231>>,
     <<8234, 8238>>, <<8288, 8292>>, <<8294, 8303>>, <<8305, 8305>>, <<8319, 8319>>,
     <<8336, 8348>>, <<8400, 8432>>, <<11388, 11389>>, <<11503, 11505>>, <<11631, 11631>>,
     <<11647, 11647>>, <<11744, 11775>>, <<11823, 11823>>, <<12293, 12293>>, <<12330, 12333>>,
     <<12337, 12341>>, <<12347, 12347>>, <<12441, 12446>>, <<12540, 12542>>, <<40981, 40981>>,
     <<42232, 42237>>, <<42508, 42508>>, <<42607, 42610>>, <<42612, 42621>>, <<42623, 42623>>,
     <<42652, 42655>>, <<42736, 42737>>, <<42752, 42785>>, <<42864, 42864>>, <<42888, 42890>>,
     <<42994, 42996>>, <<43000, 43001>>, <<43010, 43010>>, <<43014, 43014>>, <<43019, 43019>>,
     <<43045, 43046>>, <<43052, 43052>>, <<43204, 43205>>, <<43232, 43249>>, <<43263, 43263>>,
     <<43302, 43309>>, <<43335, 43345>>, <<43392, 43394>>, <<43443, 43443>>, <<43446, 43449>>,
     <<43452, 43453>>, <<43471, 43471>>, <<43493, 43494>>, <<43561, 43566>>, <<43569, 43570>>,
     <<43573, 43574>>, <<43587, 43587>>, <<43596, 43596>>, <<43632, 43632>>, <<43644, 43644>>,
     <<43696, 43696>>, <<43698, 43700>>, <<43703, 43704>>, <<43710, 43711>>, <<43713, 43713>>,
     <<43741, 43741>>, <<43756, 43757>>, <<43763, 43764>>, <<43766, 43766>>, <<43867, 43871>>,
     <<43881, 43883>>, <<44005, 44005>>, <<44008, 44008>>, <<44013, 44013>>, <<64286, 64286>>,
     <<64434, 64450>>, <<65024, 65039>>, <<65043, 65043>>, <<65056, 65071>>, <<65106, 65106>>,
     <<65109, 65109>>, <<65279, 65279>>, <<65287, 65287>>, <<65294, 65294>>, <<65306, 65306>>,
     <<65342, 65342>>, <<65344, 65344>>, <<65392, 65392>>, <<65438, 65439>>, <<65507, 65507>>,
     <<65529, 65531>>, <<66045, 66045>>, <<66272, 66272>>, <<66422, 66426>>, <<67456, 67461>>,
     <<67463, 67504>>, <<67506, 67514>>, <<68097, 68099>>, <<68101, 68102>>, <<68108, 68111>>,
     <<68152, 68154>>, <<68159, 68159>>, <<68325, 68326>>, <<68900, 68903>>, <<69291, 69292>>,
     <<69446, 69456>>, <<69506, 69509>>, <<69633, 69633>>, <<69688, 69702>>, <<69744, 69744>>,
     <<69747, 69748>>, <<69759, 69761>>, <<69811, 69814>>, <<69817, 69818>>, <<69821, 69821>>,
     <<69826, 69826>>, <<69837, 69837>>, <<69888, 69890>>, <<69927, 69931>>, <<69933, 69940>>,
     <<70003, 70003>>, <<70016, 70017>>, <<70070, 70078>>, <<70089, 70092>>, <<70095, 70095>>,
     <<70191, 70193>>, <<70196, 70196>>, <<70198, 70199>>, <<70206, 70206>>, <<70367, 70367>>,
     <<70371, 70378>>, <<70400, 70401>>, <<70459, 70460>>, <<70464, 70464>>, <<70502, 70508>>,
     <<70512, 70516>>, <<70712, 70719>>, <<70722, 70724>>, <<70726, 70726>>, <<70750, 70750>>,
     <<70835, 70840>>, <<70842, 70842>>, <<70847, 70848>>, <<70850, 70851>>, <<71090, 71093>>,
     <<71100, 71101>>, <<71103, 71104>>, <<71132, 71133>>, <<71219, 71226>>, <<71229, 71229>>,
     <<71231, 71232>>, <<71339, 71339>>, <<71341, 71341>>, <<71344, 71349>>, <<71351, 71351>>,
     <<71453, 71455>>, <<71458, 71461>>, <<71463, 71467>>, <<71727, 71735>>, <<71737, 71738>>,
     <<71995, 71996>>, <<71998, 71998>>, <<72003, 72003>>, <<72148, 72151>>, <<72154, 72155>>,
     <<72160, 72160>>, <<72193, 72202>>, <<72243, 72248>>, <<72251, 72254>>, <<72263, 72263>>,
     <<72273, 72278>>, <<72281, 72283>>, <<72330, 72342>>, <<72344, 72345>>, <<72752, 72758>>,
     <<72760, 72765>>, <<72767, 72767>>, <<72850, 72871>>, <<72874, 72880>>, <<72882, 72883>>,
     <<72885, 72886>>, <<73009, 73014>>, <<73018, 73018>>, <<73020, 73021>>, <<73023, 73029>>,
     <<73031, 73031>>, <<73104, 73105>>, <<73109, 73109>>, <<73111, 73111>>, <<73459, 73460>>,
     <<78896, 78904>>, <<92912, 92916>>, <<92976, 92982>>, <<92992, 92995>>, <<94031, 94031>>,
     <<94095, 94111>>, <<94176, 94177>>, <<94179, 94180>>, <<110576, 110579>>,
     <<110581, 110587>>, <<110589, 110590>>, <<113821, 113822>>, <<113824, 113827>>,
     <<118528, 118573>>, <<118576, 118598>>, <<119143, 119145>>, <<119155, 119170>>,
     <<119173, 119179>>, <<119210, 119213>>, <<119362, 119364>>, <<121344, 121398>>,
     <<121403, 121452>>, <<121461, 121461>>, <<121476, 121476>>, <<121499, 121503>>,
     <<121505, 121519>>, <<122880, 122886>>, <<122888, 122904>>, <<122907, 122913>>,
     <<122915, 122916>>, <<122918, 122922>>, <<123184, 123197>>, <<123566, 123566>>,
     <<123628, 123631>>, <<125136, 125142>>, <<125252, 125259>>, <<127995, 127999>>,
     <<917505, 917505>>, <<917536, 917631>>, <<917760, 917999>>}
CasedRanges ==
    {<<170, 170>>, <<181, 181>>, <<186, 186>>, <<192, 214>>, <<216, 246>>, <<248, 442>>,
     <<444, 447>>, <<452, 659>>, <<661, 687>>, <<880, 883>>, <<886, 887>>, <<891, 893>>,
     <<895, 895>>, <<902, 902>>, <<904, 906>>, <<908, 908>>, <<910, 929>>, <<931, 1013>>,
     <<1015, 1153>>, <<1162, 1327>>, <<1329, 1366>>, <<1376, 1416>>, <<4256, 4293>>,
     <<4295, 4295>>, <<4301, 4301>>, <<4304, 4346>>, <<4349, 4351>>, <<5024, 5109>>,
     <<5112, 5117>>, <<7296, 7304>>, <<7312, 7354>>, <<7357, 7359>>, <<7424, 7467>>,
     <<7531, 7543>>, <<7545, 7578>>, <<7680, 7957>>, <<7960, 7965>>, <<7968, 8005>>,
     <<8008, 8013>>, <<8016, 8023>>, <<8025, 8025>>, <<8027, 8027>>, <<8029, 8029>>,
     <<8031, 8061>>, <<8064, 8116>>, <<8118, 8124>>, <<8126, 8126>>, <<8130, 8132>>,
     <<8134, 8140>>, <<8144, 8147>>, <<8150, 8155>>, <<8160, 8172>>, <<8178, 8180>>,
     <<8182, 8188>>, <<8450, 8450>>, <<8455, 8455>>, <<8458, 8467>>, <<8469, 8469>>,
     <<8473, 8477>>, <<8484, 8484>>, <<8486, 8486>>, <<8488, 8488>>, <<8490, 8493>>,
     <<8495, 8500>>, <<8505, 8505>>, <<8508, 8511>>, <<8517, 8521>>, <<8526, 8526>>,
     <<8544, 8575>>, <<8579, 8580>>, <<9398, 9449>>, <<11264, 11387>>, <<11390, 11492>>,
     <<11499, 11502>>, <<11506, 11507>>, <<11520, 11557>>, <<11559, 11559>>, <<11565, 11565>>,
     <<42560, 42605>>, <<42624, 42651>>, <<42786, 42863>>, <<42865, 42887>>, <<42891, 42894>>,
     <<42896, 42954>>, <<42960, 42961>>, <<42963, 42963>>, <<42965, 42969>>, <<42997, 42998>>,
     <<43002, 43002>>, <<43824, 43866>>, <<43872, 43880>>, <<43888, 43967>>, <<64256, 64262>>,
     <<64275, 64279>>, <<65313, 65338>>, <<65345, 65370>>, <<66560, 66639>>, <<66736, 66771>>,
     <<66776, 66811>>, <<66928, 66938>>, <<66940, 66954>>, <<66956, 66962>>, <<66964, 66965>>,
     <<66967, 66977>>, <<66979, 66993>>, <<66995, 67001>>, <<67003, 67004>>, <<68736, 68786>>,
     <<68800, 68850>>, <<71840, 71903>>, <<93760, 93823>>, <<119808, 119892>>,
     <<119894, 119964>>, <<119966, 119967>>, <<119970, 119970>>, <<119973, 119974>>,
     <<119977, 119980>>, <<119982, 119993>>, <<119995, 119995>>, <<119997, 120003>>,
     <<120005, 120069>>, <<120071, 120074>>, <<120077, 120084>>, <<120086, 120092>>,
     <<120094, 120121>>, <<120123, 120126>>, <<120128, 120132>>, <<120134, 120134>>,
     <<120138, 120144>>, <<120146, 120485>>, <<120488, 120512>>, <<120514, 120538>>,
     <<120540, 120570>>, <<120572, 120596>>, <<120598, 120628>>, <<120630, 120654>>,
     <<120656, 120686>>, <<120688, 120712>>, <<120714, 120744>>, <<120746, 120770>>,
     <<120772, 120779>>, <<122624, 122633>>, <<122635, 122654>>, <<125184, 125251>>,
     <<127280, 127305>>, <<127312, 127337>>, <<127344, 127369>>}
CaseIgnorable == {"'", ".", ":", "^", "U+0060"} \cup CharsIn(CaseIgnorableRanges)
Cased == AsciiLetters \cup CharsIn(CasedRanges)

RECURSIVE Before(_, _)
\* the last position up to j that holds no case-ignorable character, or 0
Before(s, j) == IF j >= 1 /\ s[j] \in CaseIgnorable THEN Before(s, j - 1) ELSE j
RECURSIVE After(_, _)
\* the first position from j on that holds no case-ignorable character, or
\* Len(s) + 1
After(s, j) == IF j <= Len(s) /\ s[j] \in CaseIgnorable THEN After(s, j + 1) ELSE j
\* The sigma at position i ends a word: a cased character comes before it
\* and none after it, case-ignorable characters not counting.
FinalSigma(s, i) ==
    LET b == Before(s, i - 1)
        a == After(s, i + 1)
    IN /\ b >= 1 /\ s[b] \in Cased
       /\ a > Len(s) \/ s[a] \notin Cased

\* c.lower() of one character, as a string.  A character str.lower() leaves
\* alone is in no pair and is returned as it is.
LowerChar(c) ==
    CASE c \in Ascii -> <<LowerAscii(c)>>
      [] c = DottedCapitalI -> <<"i", "U+0307">>
      [] c = CapitalSigma -> <<"U+03C3">>
      [] OTHER ->
            LET hit == {p \in LowerPairs : p[1] = c}
            IN IF hit = {} THEN <<c>> ELSE <<(CHOOSE p \in hit : TRUE)[2]>>
RECURSIVE LowerFrom(_, _, _)
LowerFrom(s, i, acc) ==
    IF i > Len(s) THEN acc
    ELSE LowerFrom(s, i + 1,
                   acc \o (IF s[i] = CapitalSigma /\ FinalSigma(s, i)
                           THEN <<"U+03C2">> ELSE LowerChar(s[i])))
\* str.lower()
Lower(s) == LowerFrom(s, 1, <<>>)

RECURSIVE HexOf(_)
\* '%x' % n
HexOf(n) ==
    IF n < 16 THEN <<HexDigits[n + 1]>>
    ELSE Append(HexOf(n \div 16), HexDigits[(n % 16) + 1])
\* '%0*x' % (width, n): at least `width` lower-case hex digits, zero padded
ToHex(n, width) ==
    LET h == HexOf(n) IN [i \in 1..(width - Len(h)) |-> "0"] \o h

-----------------------------------------------------------------------------
(* bson.ObjectId.                                                          *)

OidLen == 24
\* an ObjectId value; v is the hex form of its bytes, what str(oid) returns
Oid(h) == [t |-> "oid", v |-> h]
\* The ObjectId the store generates for the document it inserts into a
\* collection: unique over all collections.  The first digit names the
\* collection and the rest counts its documents.
CollTag == [user |-> 1, session |-> 2, profile |-> 3]
NewObjectId(name, coll) == Oid(ToHex(CollTag[name], 1) \o ToHex(Len(coll), OidLen - 1))

\* the blanks bytes.fromhex() skips between two bytes
HexSpace == {" ", "\t", "\n", "U+000B", "\f", "\r"}
HexChars == Range(HexDigits) \cup UpperHex
NotHex == [ok |-> FALSE, hex |-> <<>>]
RECURSIVE FromHexFrom(_, _, _)
\* bytes.fromhex(s) from position i on, acc being the hex form of the bytes
\* read so far: a byte is two hex digits side by side
FromHexFrom(s, i, acc) ==
    IF i > Len(s) THEN [ok |-> TRUE, hex |-> acc]
    ELSE IF s[i] \in HexSpace THEN FromHexFrom(s, i + 1, acc)
    ELSE IF i < Len(s) /\ s[i] \in HexChars /\ s[i + 1] \in HexChars
    THEN FromHexFrom(s, i + 2, acc \o <<LowerAscii(s[i]), LowerAscii(s[i + 1])>>)
    ELSE NotHex
FromHex(s) == FromHexFrom(s, 1, <<>>)

\* ObjectId(s) succeeds iff s has 24 characters and bytes.fromhex(s) succeeds
ObjectIdValid(s) == Len(s) = OidLen /\ FromHex(s).ok
\* ObjectId(s) for a valid s: the bytes fromhex returns, 12 of them or fewer
ObjectId(s) == Oid(FromHex(s).hex)
\* str(x) of an ObjectId
OidStr(x) == x.v

-----------------------------------------------------------------------------
(* uuid.uuid4().                                                           *)

UuidHexLen == 32
SlugLen == 10
\* The UUIDs the generator can return, as 32 hex digits (uuid4().hex):
\* version digit 4 at position 13, variant digit 8 at position 17.
UuidHex(a, b) ==
    [i \in 1..UuidHexLen |->
        CASE i = SlugLen -> HexDigits[a + 1]
          [] i = 13 -> "4"
          [] i = 17 -> "8"
          [] i = UuidHexLen -> HexDigits[b + 1]
          [] OTHER -> "0"]
SlugDigits == 0..15
\* uuid4() returns a value it has not returned before: the final digit
\* numbers the calls, since that part of a UUID is only ever compared for
\* equality.  Digit 10, the last one the share slug keeps, is drawn freely.
Uuid4 == {UuidHex(a, draws) : a \in SlugDigits}
\* str(uuid): 8-4-4-4-12
UuidStr(h) ==
    SubSeq(h, 1, 8) \o <<"-">> \o SubSeq(h, 9, 12) \o <<"-">> \o
    SubSeq(h, 13, 16) \o <<"-">> \o SubSeq(h, 17, 20) \o <<"-">> \o
    SubSeq(h, 21, 32)
\* uuid.hex[:10]
ShareSlug(h) == SubSeq(h, 1, Min(SlugLen, Len(h)))

\* The draw of a session token.  A token is only ever used whole, so the
\* draws that differ in digit 10 alone are represented by one of them.
TokenUuid4 == {u \in Uuid4 : u[SlugLen] = "0"}

\* the steps of save_profile after the slug is drawn (main.py:228)
ProfileSteps == {"profile_created_at", "profile_updated_at", "insert"}
\* the share slugs drawn so far: stored, or in a document on its way to the
\* store
SlugsOut ==
    {profile[i].share_slug : i \in 1..Len(profile)}
    \cup {built[p].share_slug : p \in {q \in Procs : pc[q] \in ProfileSteps}}
\* The values of digit 10 are interchangeable.  Those that stand for all 16:
\* each value some slug drawn so far has, and the least value none has.
SlugChoices ==
    LET out == {a \in SlugDigits : \E s \in SlugsOut : s[SlugLen] = HexDigits[a + 1]}
        new == SlugDigits \ out
    IN out \cup {a \in new : \A b \in new : a <= b}
\* the draw of the UUID a share slug is cut from
SlugUuid4 == {u \in Uuid4 : \E a \in SlugChoices : u[SlugLen] = HexDigits[a + 1]}

-----------------------------------------------------------------------------
(* Requests.                                                               *)

\* SignInRequest bodies
SignInRequests ==
    {[email |-> <<"a", "@", "x">>, name |-> None],
     [email |-> <<"b">>, name |-> Str(<<"Z">>)]}

\* GeneratedContent values a client may post to /profile
ContentOf(title, bullets) ==
    [title |-> title, summary |-> "s", bullets |-> bullets,
     cover_letter |-> "c", header |-> "h", footer |-> "f", advice |-> "a"]
\* the content, loom_url and photo_url of a SaveProfileRequest
ProfileBodies ==
    {[content |-> ContentOf("t1", <<"b1">>), loom_url |-> None,
      photo_url |-> Str(<<"p">>)],
     [content |-> ContentOf("t2", <<>>), loom_url |-> Str(<<"l">>),
      photo_url |-> None]}

\* str.split(sep)[0]: the part of s before the first sep
RECURSIVE SplitFirst(_, _)
SplitFirst(s, sep) ==
    IF s = <<>> \/ Head(s) = sep THEN <<>>
    ELSE <<Head(s)>> \o SplitFirst(Tail(s), sep)

\* user_id strings a client may post to /profile: the ids sign-in has handed
\* out, a well-formed id of no document in upper case, and strings that are
\* not 24 hex digits: 23 digits, a letter that is no hex digit, and 24
\* characters of which every third is a blank
Upper(s) == [i \in 1..Len(s) |-> IF s[i] = "a" THEN "A" ELSE s[i]]
Spaced == [i \in 1..OidLen |-> IF i % 3 = 0 THEN " " ELSE "0"]
UserIdInputs ==
    {OidStr(user[i]._id) : i \in 1..Len(user)}
    \cup {Upper(ToHex(10, OidLen))}
    \cup {ToHex(0, OidLen - 1), [i \in 1..OidLen |-> IF i = 1 THEN "g" ELSE "0"], Spaced}
\* slugs a client may ask for: one per value of digit 10 that SlugChoices keeps
SlugInputs == {ShareSlug(UuidHex(a, 0)) : a \in SlugChoices}

-----------------------------------------------------------------------------
(* The document store: each operation is one atomic call.  Between two     *)
(* calls a handler reads the clock and draws UUIDs: each reading and each  *)
(* draw is a step of its own, since the interpreter can switch to another  *)
(* handler thread between any two of them.  What a handler computes from   *)
(* its own data alone belongs to the step of the reading, draw or call     *)
(* that follows.                                                           *)

\* collection.find_one({field: value}): the first matching document, as a
\* sequence of length 0 (None) or 1
RECURSIVE FindOne(_, _, _)
FindOne(coll, field, value) ==
    IF coll = <<>> THEN <<>>
    ELSE IF Head(coll)[field] = value THEN <<Head(coll)>>
    ELSE FindOne(Tail(coll), field, value)

\* the document with the _id the store gives it
WithId(id, doc) ==
    [f \in DOMAIN doc \cup {"_id"} |-> IF f = "_id" THEN id ELSE doc[f]]
\* db[name].insert_one(doc): the store assigns the next ObjectId as _id
InsertOne(coll, name, doc) == Append(coll, WithId(NewObjectId(name, coll), doc))

\* index of the first document with the given _id, or 0
RECURSIVE IndexOfId(_, _, _)
IndexOfId(coll, id, i) ==
    IF i > Len(coll) THEN 0
    ELSE IF coll[i]._id = id THEN i
    ELSE IndexOfId(coll, id, i + 1)

\* db["user"].update_one({"_id": id}, {"$set": set})
UpdateOneUser(coll, id, set) ==
    LET k == IndexOfId(coll, id, 1) IN
    IF k = 0 THEN coll
    ELSE [coll EXCEPT ![k] = [@ EXCEPT !.name = set.name, !.updated_at = set.updated_at]]

Bump(kind) == [ops EXCEPT ![kind] = @ + 1]
\* datetime.now(timezone.utc), read by worker p a second time for the
\* document whose first reading was t: the next reading, or t again when the
\* first reading was the latest step of all (the clock need not have moved
\* on between two readings that follow each other; it has by the time
\* another handler has run)
ReadAgain(p, name, t) == IF reading = p THEN {t, clock[name]} ELSE {clock[name]}
\* the clock of a collection after n readings
Tick(name, n) == [clock EXCEPT ![name] = @ + n]
Http(op, arg, status, body) ==
    [op |-> op, arg |-> arg, status |-> status, body |-> body]
Detail(d) == [detail |-> d]
Event(p, step, email, user_id, token) ==
    [p |-> p, step |-> step, email |-> email, user_id |-> user_id, token |-> token]

\* a request is handed to the first idle worker
Dispatch(p) == pc[p] = "idle" /\ \A q \in Procs : pc[q] = "idle" => p <= q

NoDoc == <<>>

-----------------------------------------------------------------------------
(* POST /auth/signin, main.py:75-101.  The handler runs in a thread of the *)
(* pool and can be overtaken between any two of its steps: the three store *)
(* calls, the readings of the clock and the draw of the token.             *)

\* faulty variant: the new user is stored under its display name, not its email
UserDocKeyedByName(payload, created_at, updated_at) ==
    [email |-> Or(payload.name, Str(SplitFirst(payload.email, "@"))).v,
     name |-> Or(payload.name, Str(SplitFirst(payload.email, "@"))),
     created_at |-> created_at,
     updated_at |-> updated_at]

\* main.py:83-88; created_at and updated_at are two readings of the clock
UserDoc(payload, created_at, updated_at) ==
    [email |-> payload.email,
     name |-> Or(payload.name, Str(SplitFirst(payload.email, "@"))),
     created_at |-> created_at,
     updated_at |-> updated_at]

\* main.py:93: the $set of the update
UserUpdate(payload, doc, now) ==
    [name |-> Or(payload.name, doc.name), updated_at |-> now]

\* faulty variant: the session gets an identifier of its own making
SessionDocFreshId(user_id, token, now) ==
    [user_id |-> NewObjectId("session", session), token |-> token, created_at |-> now]

\* main.py:96-100
SessionDoc(user_id, token, now) ==
    [user_id |-> ObjectId(user_id), token |-> token, created_at |-> now]

\* main.py:101
SignInResponse(user_id, token) == [user_id |-> user_id, token |-> token]

\* main.py:77-81: the handle check, then find_one by email
SigninFind(p, payload) ==
    /\ Dispatch(p)
    /\ calls' = calls + 1
    /\ IF ~db
       THEN /\ trace' = Append(trace, Event(p, "error", payload.email, <<>>, <<>>))
            /\ last' = Http("signin", payload.email, 500,
                            Detail("Database not configured"))
            /\ UNCHANGED <<pc, req, found, ops>>
       ELSE LET hit == FindOne(user, "email", payload.email) IN
            /\ found' = [found EXCEPT ![p] = hit]
            /\ req' = [req EXCEPT ![p] = payload]
            /\ pc' = [pc EXCEPT ![p] = "build"]
            /\ ops' = Bump("find")
            /\ trace' = Append(trace, Event(p, "find", payload.email,
                                IF hit = <<>> THEN <<>> ELSE OidStr(hit[1]._id),
                                <<>>))
            /\ last' = last
    /\ reading' = 0
    /\ UNCHANGED <<db, libs, user, session, profile, clock, uid, built, saves, draws,
                   gen, ext>>

\* main.py:82-86: no user was found; the first reading of the clock
SigninCreatedAt(p) ==
    /\ pc[p] = "build"
    /\ found[p] = <<>>
    /\ built' = [built EXCEPT ![p] = [created_at |-> clock.user]]
    /\ clock' = Tick("user", 1)
    /\ pc' = [pc EXCEPT ![p] = "updated_at"]
    /\ reading' = p
    /\ UNCHANGED <<db, libs, user, session, profile, req, found, uid, draws, trace,
                   last, saves, calls, ops, gen, ext>>

\* main.py:83-88: the second reading of the clock and the user document;
\* main.py:92-93: a user was found: user_id, the reading of the clock and the
\* $set of the update
SigninUpdatedAt(p) ==
    /\ \/ /\ pc[p] = "updated_at"
          /\ \E updated_at \in ReadAgain(p, "user", built[p].created_at) :
               built' = [built EXCEPT
                            ![p] = UserDoc(req[p], built[p].created_at, updated_at)]
          /\ uid' = uid
       \/ /\ pc[p] = "build"
          /\ found[p] # <<>>
          /\ built' = [built EXCEPT
                          ![p] = UserUpdate(req[p], found[p][1], clock.user)]
          /\ uid' = [uid EXCEPT ![p] = OidStr(found[p][1]._id)]
    /\ clock' = Tick("user", 1)
    /\ pc' = [pc EXCEPT ![p] = "upsert"]
    /\ reading' = 0
    /\ UNCHANGED <<db, libs, user, session, profile, req, found, draws, trace, last,
                   saves, calls, ops, gen, ext>>

\* faulty variant: the user is inserted only if the collection still has none
\* with the email
SigninUpsertAtomic(p) ==
    LET hit == FindOne(user, "email", req[p].email) IN
    /\ pc[p] = "upsert"
    /\ IF found[p] = <<>> /\ hit = <<>>
       THEN /\ user' = InsertOne(user, "user", built[p])
            /\ uid' = [uid EXCEPT ![p] = OidStr(NewObjectId("user", user))]
            /\ ops' = Bump("insert")
       ELSE IF found[p] = <<>>
       THEN /\ uid' = [uid EXCEPT ![p] = OidStr(hit[1]._id)]
            /\ UNCHANGED <<user, ops>>
       ELSE /\ user' = UpdateOneUser(user, ObjectId(uid[p]), built[p])
            /\ uid' = uid
            /\ ops' = Bump("update")
    /\ built' = [built EXCEPT ![p] = NoDoc]
    /\ pc' = [pc EXCEPT ![p] = "token"]
    /\ trace' = Append(trace, Event(p, "upsert", req[p].email, uid'[p], <<>>))
    /\ reading' = 0
    /\ UNCHANGED <<db, libs, session, profile, clock, req, found, draws, last, saves,
                   calls, gen, ext>>

\* main.py:89-90, 93: insert_one of the user document and user_id, or
\* update_one
SigninUpsert(p) ==
    /\ pc[p] = "upsert"
    /\ IF found[p] = <<>>
       THEN /\ user' = InsertOne(user, "user", built[p])
            /\ uid' = [uid EXCEPT ![p] = OidStr(NewObjectId("user", user))]
            /\ ops' = Bump("insert")
       ELSE /\ user' = UpdateOneUser(user, ObjectId(uid[p]), built[p])
            /\ uid' = uid
            /\ ops' = Bump("update")
    /\ built' = [built EXCEPT ![p] = NoDoc]
    /\ pc' = [pc EXCEPT ![p] = "token"]
    /\ trace' = Append(trace, Event(p, "upsert", req[p].email, uid'[p], <<>>))
    /\ reading' = 0
    /\ UNCHANGED <<db, libs, session, profile, clock, req, found, draws, last, saves,
                   calls, gen, ext>>

\* main.py:95: the draw of the token
SigninToken(p) ==
    /\ pc[p] = "token"
    /\ \E u \in TokenUuid4 : built' = [built EXCEPT ![p] = [token |-> UuidStr(u)]]
    /\ draws' = draws + 1
    /\ pc' = [pc EXCEPT ![p] = "created_at"]
    /\ reading' = 0
    /\ UNCHANGED <<db, libs, user, session, profile, clock, req, found, uid, trace,
                   last, saves, calls, ops, gen, ext>>

\* main.py:96-100: the reading of the clock and the session document
SigninSessionCreatedAt(p) ==
    /\ pc[p] = "created_at"
    /\ built' = [built EXCEPT
                    ![p] = SessionDoc(uid[p], built[p].token, clock.session)]
    /\ clock' = Tick("session", 1)
    /\ pc' = [pc EXCEPT ![p] = "session"]
    /\ reading' = 0
    /\ UNCHANGED <<db, libs, user, session, profile, req, found, uid, draws, trace,
                   last, saves, calls, ops, gen, ext>>

\* faulty variant: a user who has a session is handed its token again
SigninSessionReuse(p) ==
    LET mine == {i \in 1..Len(session) : session[i].user_id = built[p].user_id}
        token == IF mine # {} THEN session[CHOOSE i \in mine : TRUE].token
                 ELSE built[p].token IN
    /\ pc[p] = "session"
    /\ IF mine # {}
       THEN UNCHANGED <<session, ops>>
       ELSE /\ session' = InsertOne(session, "session", built[p])
            /\ ops' = Bump("insert")
    /\ trace' = Append(trace, Event(p, "return", req[p].email, uid[p], token))
    /\ last' = Http("signin", req[p].email, 200, SignInResponse(uid[p], token))
    /\ built' = [built EXCEPT ![p] = NoDoc]
    /\ pc' = [pc EXCEPT ![p] = "idle"]
    /\ reading' = 0
    /\ UNCHANGED <<db, libs, user, profile, clock, req, found, uid, saves, calls,
                   draws, gen, ext>>

\* main.py:96-101: insert_one of the session document, then the response
SigninSession(p) ==
    /\ pc[p] = "session"
    /\ session' = InsertOne(session, "session", built[p])
    /\ ops' = Bump("insert")
    /\ trace' = Append(trace, Event(p, "return", req[p].email, uid[p], built[p].token))
    /\ last' = Http("signin", req[p].email, 200,
                    SignInResponse(uid[p], built[p].token))
    /\ built' = [built EXCEPT ![p] = NoDoc]
    /\ pc' = [pc EXCEPT ![p] = "idle"]
    /\ reading' = 0
    /\ UNCHANGED <<db, libs, user, profile, clock, req, found, uid, saves, calls,
                   draws, gen, ext>>

-----------------------------------------------------------------------------
(* POST /profile, main.py:218-241.                                         *)

\* main.py:230-238; created_at and updated_at are two readings of the clock
ProfileDoc(payload, share_slug, created_at, updated_at) ==
    [user_id |-> ObjectId(payload.user_id),
     content |-> payload.content,
     loom_url |-> payload.loom_url,
     photo_url |-> payload.photo_url,
     share_slug |-> share_slug,
     created_at |-> created_at,
     updated_at |-> updated_at]

\* main.py:220-228: the handle check, the check of user_id and the draw of
\* the slug
SaveProfileSlug(p, user_id, body) ==
    LET payload == [user_id |-> user_id, content |-> body.content,
                    loom_url |-> body.loom_url, photo_url |-> body.photo_url] IN
    /\ Dispatch(p)
    /\ calls' = calls + 1
    /\ IF ~db
       THEN /\ last' = Http("save_profile", user_id, 500,
                            Detail("Database not configured"))
            /\ UNCHANGED <<pc, req, built, draws>>
       ELSE IF ~ObjectIdValid(user_id)
       THEN /\ last' = Http("save_profile", user_id, 400, Detail("Invalid user_id"))
            /\ UNCHANGED <<pc, req, built, draws>>
       ELSE /\ \E u \in SlugUuid4 :
                 built' = [built EXCEPT ![p] = [share_slug |-> ShareSlug(u)]]
            /\ req' = [req EXCEPT ![p] = payload]
            /\ pc' = [pc EXCEPT ![p] = "profile_created_at"]
            /\ draws' = draws + 1
            /\ last' = last
    /\ reading' = 0
    /\ UNCHANGED <<db, libs, user, session, profile, clock, found, uid, trace, saves,
                   ops, gen, ext>>

\* main.py:236: the first reading of the clock
SaveProfileCreatedAt(p) ==
    /\ pc[p] = "profile_created_at"
    /\ built' = [built EXCEPT ![p] = [share_slug |-> built[p].share_slug,
                                      created_at |-> clock.profile]]
    /\ clock' = Tick("profile", 1)
    /\ pc' = [pc EXCEPT ![p] = "profile_updated_at"]
    /\ reading' = p
    /\ UNCHANGED <<db, libs, user, session, profile, req, found, uid, draws, trace,
                   last, saves, calls, ops, gen, ext>>

\* main.py:230-238: the second reading of the clock and the document
SaveProfileUpdatedAt(p) ==
    /\ pc[p] = "profile_updated_at"
    /\ \E updated_at \in ReadAgain(p, "profile", built[p].created_at) :
         built' = [built EXCEPT
                      ![p] = ProfileDoc(req[p], built[p].share_slug,
                                        built[p].created_at, updated_at)]
    /\ clock' = Tick("profile", 1)
    /\ pc' = [pc EXCEPT ![p] = "insert"]
    /\ reading' = 0
    /\ UNCHANGED <<db, libs, user, session, profile, req, found, uid, draws, trace,
                   last, saves, calls, ops, gen, ext>>

\* main.py:240-241: insert_one, then the response.  An ObjectId of fewer
\* than 12 bytes is one the driver may fail to encode: insert_one then
\* raises, nothing is stored and the call answers 500.
SaveProfileInsert(p) ==
    LET id == NewObjectId("profile", profile) IN
    /\ pc[p] = "insert"
    /\ \/ /\ profile' = InsertOne(profile, "profile", built[p])
          /\ last' = Http("save_profile", req[p].user_id, 200,
                          [profile_id |-> OidStr(id),
                           share_slug |-> built[p].share_slug])
          /\ saves' = Append(saves,
                         [payload |-> req[p], profile_id |-> OidStr(id),
                          share_slug |-> built[p].share_slug])
       \/ /\ Len(built[p].user_id.v) # OidLen
          /\ last' = Http("save_profile", req[p].user_id, 500,
                          Detail("Internal Server Error"))
          /\ UNCHANGED <<profile, saves>>
    /\ ops' = Bump("insert")
    /\ built' = [built EXCEPT ![p] = NoDoc]
    /\ pc' = [pc EXCEPT ![p] = "idle"]
    /\ reading' = 0
    /\ UNCHANGED <<db, libs, user, session, clock, req, found, uid, trace, calls,
                   draws, gen, ext>>

-----------------------------------------------------------------------------
(* GET /profile/{slug}, main.py:244-255.                                   *)

\* main.py:252-255: identifiers become strings
ProfileView(doc) ==
    [doc EXCEPT !._id = Str(OidStr(doc._id)),
                !.user_id = IF doc.user_id.t = "oid"
                            THEN Str(OidStr(doc.user_id)) ELSE doc.user_id]

\* faulty variant: the handle is not checked
GetProfileResponseUnchecked(slug) ==
    LET doc == FindOne(profile, "share_slug", slug) IN
    IF doc = <<>>
    THEN Http("get_profile", slug, 404, Detail("Profile not found"))
    ELSE Http("get_profile", slug, 200, ProfileView(doc[1]))

\* the response of get_profile(slug) with the store as it is
GetProfileResponse(slug) ==
    IF ~db THEN Http("get_profile", slug, 500, Detail("Database not configured"))
    ELSE LET doc == FindOne(profile, "share_slug", slug) IN
         IF doc = <<>>
         THEN Http("get_profile", slug, 404, Detail("Profile not found"))
         ELSE Http("get_profile", slug, 200, ProfileView(doc[1]))

GetProfile(slug) ==
    /\ calls' = calls + 1
    /\ last' = GetProfileResponse(slug)
    /\ ops' = IF db THEN Bump("find") ELSE ops
    /\ reading' = 0
    /\ UNCHANGED <<db, libs, user, session, profile, clock, pc, req, built, draws,
                   found, uid, trace, saves, gen, ext>>

-----------------------------------------------------------------------------
(* The store-backed handlers: up to MaxCalls requests in any interleaving.  *)

NoRequest == [email |-> <<>>, name |-> None]
NoResponse == Http("none", <<>>, 0, Detail(""))
GenIdle == [phase |-> "idle"]
ExtIdle == [phase |-> "idle"]

AllLibs == [pdf |-> TRUE, docx |-> TRUE]

Init ==
    /\ db \in BOOLEAN
    /\ libs = AllLibs
    /\ user = <<>>
    /\ session = <<>>
    /\ profile = <<>>
    /\ clock = [user |-> 0, session |-> 0, profile |-> 0]
    /\ reading = 0
    /\ pc = [p \in Procs |-> "idle"]
    /\ req = [p \in Procs |-> NoRequest]
    /\ built = [p \in Procs |-> NoDoc]
    /\ draws = 0
    /\ found = [p \in Procs |-> <<>>]
    /\ uid = [p \in Procs |-> <<>>]
    /\ trace = <<>>
    /\ last = NoResponse
    /\ saves = <<>>
    /\ calls = 0
    /\ ops = [find |-> 0, insert |-> 0, update |-> 0]
    /\ gen = GenIdle
    /\ ext = ExtIdle

Next ==
    \/ /\ calls < MaxCalls
       /\ \E p \in Procs, payload \in SignInRequests : SigninFind(p, payload)
    \/ \E p \in Procs : SigninCreatedAt(p)
    \/ \E p \in Procs : SigninUpdatedAt(p)
    \/ \E p \in Procs : SigninUpsert(p)
    \/ \E p \in Procs : SigninToken(p)
    \/ \E p \in Procs : SigninSessionCreatedAt(p)
    \/ \E p \in Procs : SigninSession(p)
    \/ /\ calls < MaxCalls
       /\ \E p \in Procs, user_id \in UserIdInputs, body \in ProfileBodies :
            SaveProfileSlug(p, user_id, body)
    \/ \E p \in Procs : SaveProfileCreatedAt(p)
    \/ \E p \in Procs : SaveProfileUpdatedAt(p)
    \/ \E p \in Procs : SaveProfileInsert(p)
    \/ /\ calls < MaxCalls
       /\ \E slug \in SlugInputs : GetProfile(slug)

Spec == Init /\ [][Next]_vars

-----------------------------------------------------------------------------
(* Longer runs of sign-ins: up to MaxSignins requests, of which only the   *)
(* first MaxMixed can be profile requests.  The first MaxOverlap requests  *)
(* are served in any interleaving; after them a sign-in is accepted when   *)
(* no request is being served.                                             *)

NextSignin ==
    \/ /\ calls < MaxSignins
       /\ calls >= MaxOverlap => \A q \in Procs : pc[q] = "idle"
       /\ \E p \in Procs, payload \in SignInRequests : SigninFind(p, payload)
    \/ \E p \in Procs : SigninCreatedAt(p)
    \/ \E p \in Procs : SigninUpdatedAt(p)
    \/ \E p \in Procs : SigninUpsert(p)
    \/ \E p \in Procs : SigninToken(p)
    \/ \E p \in Procs : SigninSessionCreatedAt(p)
    \/ \E p \in Procs : SigninSession(p)
    \/ /\ calls < MaxMixed
       /\ \E p \in Procs, user_id \in UserIdInputs, body \in ProfileBodies :
            SaveProfileSlug(p, user_id, body)
    \/ \E p \in Procs : SaveProfileCreatedAt(p)
    \/ \E p \in Procs : SaveProfileUpdatedAt(p)
    \/ \E p \in Procs : SaveProfileInsert(p)
    \/ /\ calls < MaxMixed
       /\ \E slug \in SlugInputs : GetProfile(slug)

SpecSignin == Init /\ [][NextSignin]_vars

-----------------------------------------------------------------------------
(* Text helpers of the generator, main.py:147-182.                         *)

MinWordLen == 4
TopKeywords == 10
TitleTokens == 6
SummaryKeywords == 6
ScannedLines == 12
ScannedKeywords == 8
MaxBullets == 8
LineCut == 140
FallbackKeywords == 5

\* the line boundaries of str.splitlines()
LineBreaks ==
    {"\n", "U+000B", "\f", "\r", "U+001C", "U+001D", "U+001E", "U+0085",
     "U+2028", "U+2029"}
\* the characters str.strip() removes and str.split() splits at: those with
\* c.isspace()
Whitespace ==
    {"\t", "\n", "U+000B", "\f", "\r", "U+001C", "U+001D", "U+001E", "U+001F",
     " ", "U+0085", "U+00A0", "U+1680", "U+2000", "U+2001", "U+2002",
     "U+2003", "U+2004", "U+2005", "U+2006", "U+2007", "U+2008", "U+2009",
     "U+200A", "U+2028", "U+2029", "U+202F", "U+205F", "U+3000"}
Take(s, n) == SubSeq(s, 1, Min(n, Len(s)))

RECURSIVE SplitLinesFrom(_, _, _)
\* str.splitlines() from position i on, cur being the line read so far
SplitLinesFrom(s, i, cur) ==
    IF i > Len(s) THEN (IF cur = <<>> THEN <<>> ELSE <<cur>>)
    ELSE IF s[i] \in LineBreaks
    THEN LET skip == IF s[i] = "\r" /\ i < Len(s) /\ s[i + 1] = "\n" THEN 2 ELSE 1
         IN <<cur>> \o SplitLinesFrom(s, i + skip, <<>>)
    ELSE SplitLinesFrom(s, i + 1, Append(cur, s[i]))
SplitLines(s) == SplitLinesFrom(s, 1, <<>>)

RECURSIVE LStrip(_)
LStrip(s) == IF s # <<>> /\ Head(s) \in Whitespace THEN LStrip(Tail(s)) ELSE s
RECURSIVE RStrip(_)
RStrip(s) ==
    IF s # <<>> /\ s[Len(s)] \in Whitespace THEN RStrip(SubSeq(s, 1, Len(s) - 1)) ELSE s
\* str.strip()
Strip(s) == RStrip(LStrip(s))

NonEmpty(s) == s # <<>>
\* [l.strip() for l in text.splitlines() if l.strip()]
StrippedLines(text) ==
    LET lines == SplitLines(text)
    IN SelectSeq([i \in 1..Len(lines) |-> Strip(lines[i])], NonEmpty)

RECURSIVE SplitWsFrom(_, _, _)
\* str.split(): the maximal runs of non-whitespace
SplitWsFrom(s, i, cur) ==
    IF i > Len(s) THEN (IF cur = <<>> THEN <<>> ELSE <<cur>>)
    ELSE IF s[i] \in Whitespace
    THEN (IF cur = <<>> THEN <<>> ELSE <<cur>>) \o SplitWsFrom(s, i + 1, <<>>)
    ELSE SplitWsFrom(s, i + 1, Append(cur, s[i]))
SplitWs(s) == SplitWsFrom(s, 1, <<>>)

RECURSIVE Join(_, _)
\* sep.join(parts)
Join(parts, sep) ==
    IF parts = <<>> THEN <<>>
    ELSE IF Len(parts) = 1 THEN parts[1]
    ELSE parts[1] \o sep \o Join(Tail(parts), sep)

RECURSIVE LetterRunsFrom(_, _, _)
\* re.findall(r"[A-Za-z]{4,}", s): the maximal runs of letters of length >= 4
LetterRunsFrom(s, i, cur) ==
    LET run == IF Len(cur) >= MinWordLen THEN <<cur>> ELSE <<>> IN
    IF i > Len(s) THEN run
    ELSE IF s[i] \in AsciiLetters THEN LetterRunsFrom(s, i + 1, Append(cur, s[i]))
    ELSE run \o LetterRunsFrom(s, i + 1, <<>>)

Occurrences(w, words) == Cardinality({i \in 1..Len(words) : words[i] = w})

RECURSIVE FirstSeen(_, _)
\* the keys of the dict `common`, in insertion order
FirstSeen(words, acc) ==
    IF words = <<>> THEN acc
    ELSE FirstSeen(Tail(words),
                   IF Head(words) \in Range(acc) THEN acc ELSE Append(acc, Head(words)))

RECURSIVE ByCountDesc(_, _, _)
\* sorted(..., key=count, reverse=True): stable, most frequent first
ByCountDesc(keys, words, acc) ==
    IF keys = <<>> THEN acc
    ELSE LET k == Head(keys)
             n == Cardinality({i \in 1..Len(acc) :
                                 Occurrences(acc[i], words) >= Occurrences(k, words)})
         IN ByCountDesc(Tail(keys), words,
                        SubSeq(acc, 1, n) \o <<k>> \o SubSeq(acc, n + 1, Len(acc)))

\* keywords(text), main.py:156-163
Keywords(text) ==
    LET words == LetterRunsFrom(Lower(text), 1, <<>>)
    IN Take(ByCountDesc(FirstSeen(words, <<>>), words, <<>>), TopKeywords)

\* `k in line`
Contains(line, k) ==
    \E i \in 1..(Len(line) - Len(k) + 1) : SubSeq(line, i, i + Len(k) - 1) = k

\* list(a_set): the elements in some order
Orders(S) ==
    {o \in [1..Cardinality(S) -> S] : \A i, j \in 1..Cardinality(S) : o[i] = o[j] => i = j}

BulletHead ==
    <<"D", "e", "l", "i", "v", "e", "r", "e", "d", " ">>
BulletMid ==
    <<"-", "f", "o", "c", "u", "s", "e", "d", " ", "o", "u", "t", "c", "o",
      "m", "e", "s", ":", " ">>
FallbackHead ==
    <<"A", "c", "c", "o", "m", "p", "l", "i", "s", "h", "e", "d", " ", "k",
      "e", "y", " ", "o", "u", "t", "c", "o", "m", "e", "s", " ", "a", "c",
      "r", "o", "s", "s", " ">>
CommaSpace == <<",", " ">>
SummaryHead ==
    <<"R", "e", "s", "u", "l", "t", "s", "-", "d", "r", "i", "v", "e", "n",
      " ", "p", "r", "o", "f", "e", "s", "s", "i", "o", "n", "a", "l", " ",
      "a", "l", "i", "g", "n", "i", "n", "g", " ", "c", "l", "o", "s", "e",
      "l", "y", " ", "w", "i", "t", "h", " ", "t", "h", "e", " ", "r", "o",
      "l", "e", "'", "s", " ", "p", "r", "i", "o", "r", "i", "t", "i", "e",
      "s", ":", " ">>
SummaryTail ==
    <<".", " ", "B", "r", "i", "n", "g", "s", " ", "p", "r", "o", "v", "e",
      "n", " ", "e", "x", "p", "e", "r", "i", "e", "n", "c", "e", " ", "h",
      "i", "g", "h", "l", "i", "g", "h", "t", "e", "d", " ", "b", "e", "l",
      "o", "w", " ", "a", "n", "d", " ", "t", "a", "i", "l", "o", "r", "e",
      "d", " ", "p", "r", "e", "c", "i", "s", "e", "l", "y", " ", "t", "o",
      " ", "t", "h", "e", " ", "j", "o", "b", " ", "d", "e", "s", "c", "r",
      "i", "p", "t", "i", "o", "n", ".">>
CoverHead ==
    <<"D", "e", "a", "r", " ", "H", "i", "r", "i", "n", "g", " ", "M", "a",
      "n", "a", "g", "e", "r", ",", "\n", "\n", "I", "'", "m", " ", "e", "x",
      "c", "i", "t", "e", "d", " ", "t", "o", " ", "a", "p", "p", "l", "y",
      " ", "f", "o", "r", " ", "t", "h", "i", "s", " ", "o", "p", "p", "o",
      "r", "t", "u", "n", "i", "t", "y", ".", " ", "A", "f", "t", "e", "r",
      " ", "r", "e", "v", "i", "e", "w", "i", "n", "g", " ", "t", "h", "e",
      " ", "j", "o", "b", " ", "d", "e", "s", "c", "r", "i", "p", "t", "i",
      "o", "n", ",", " ", "I", " ", "c", "u", "r", "a", "t", "e", "d", " ",
      "t", "h", "e", " ", "a", "t", "t", "a", "c", "h", "e", "d", " ", "r",
      "e", "s", "u", "m", "e", " ", "t", "o", " ", "e", "m", "p", "h", "a",
      "s", "i", "z", "e", " ", "t", "h", "e", " ", "m", "o", "s", "t", " ",
      "r", "e", "l", "e", "v", "a", "n", "t", " ", "s", "k", "i", "l", "l",
      "s", " ", "a", "n", "d", " ", "o", "u", "t", "c", "o", "m", "e", "s",
      ",", " ", "i", "n", "c", "l", "u", "d", "i", "n", "g", " ">>
CoverTail ==
    <<".", " ", "I", " ", "t", "h", "r", "i", "v", "e", " ", "i", "n", " ",
      "c", "o", "l", "l", "a", "b", "o", "r", "a", "t", "i", "v", "e", ",",
      " ", "f", "a", "s", "t", "-", "m", "o", "v", "i", "n", "g", " ", "e",
      "n", "v", "i", "r", "o", "n", "m", "e", "n", "t", "s", " ", "a", "n",
      "d", " ", "w", "o", "u", "l", "d", " ", "w", "e", "l", "c", "o", "m",
      "e", " ", "t", "h", "e", " ", "c", "h", "a", "n", "c", "e", " ", "t",
      "o", " ", "c", "o", "n", "t", "r", "i", "b", "u", "t", "e", ".", "\n",
      "\n", "S", "i", "n", "c", "e", "r", "e", "l", "y", ",", "\n", "Y", "o",
      "u", "r", " ", "N", "a", "m", "e">>
DefaultTitle ==
    <<"P", "r", "o", "f", "e", "s", "s", "i", "o", "n", "a", "l", " ", "P",
      "r", "o", "f", "i", "l", "e">>

\* main.py:195-198
Advice ==
    <<"R", "e", "c", "o", "r", "d", " ", "a", " ", "6", "0", "U+2013", "9",
      "0", "s", " ", "L", "o", "o", "m", ":", " ", "s", "t", "a", "r", "t",
      " ", "w", "i", "t", "h", " ", "a", " ", "1", "0", "s", " ", "i", "n",
      "t", "r", "o", " ", "(", "n", "a", "m", "e", ",", " ", "r", "o", "l",
      "e", ")", ",", " ", "t", "h", "e", "n", " ", "3", "0", "s", " ", "o",
      "n", " ", "a", " ", "s", "i", "g", "n", "a", "t", "u", "r", "e", " ",
      "a", "c", "h", "i", "e", "v", "e", "m", "e", "n", "t", ",", " ", "2",
      "0", "s", " ", "o", "n", " ", "h", "o", "w", " ", "i", "t", " ", "m",
      "a", "p", "s", " ", "t", "o", " ", "t", "h", "e", " ", "J", "D", ",",
      " ", "a", "n", "d", " ", "f", "i", "n", "i", "s", "h", " ", "w", "i",
      "t", "h", " ", "a", " ", "c", "l", "e", "a", "r", " ", "a", "s", "k",
      " ", "t", "o", " ", "c", "o", "n", "n", "e", "c", "t", ".", " ", "S",
      "m", "i", "l", "e", ",", " ", "g", "o", "o", "d", " ", "l", "i", "g",
      "h", "t", "i", "n", "g", ",", " ", "a", "n", "d", " ", "s", "h", "a",
      "r", "e", " ", "1", " ", "o", "n", "-", "s", "c", "r", "e", "e", "n",
      " ", "a", "r", "t", "i", "f", "a", "c", "t", " ", "(", "d", "a", "s",
      "h", "b", "o", "a", "r", "d", ",", " ", "c", "o", "d", "e", " ", "s",
      "n", "i", "p", "p", "e", "t", ",", " ", "d", "e", "s", "i", "g", "n",
      ")", ".">>

\* main.py:179
Bullet(k, line) == BulletHead \o k \o BulletMid \o Take(line, LineCut)
\* main.py:182
FallbackBullet(um_list) ==
    FallbackHead \o Join(Take(um_list, FallbackKeywords), CommaSpace) \o <<".">>

RECURSIVE BulletsFromUncapped(_, _, _, _)
\* faulty variant: the number of bullets is not capped
BulletsFromUncapped(lines, kws, i, bullets) ==
    IF i > Len(lines) THEN bullets
    ELSE LET hits == {j \in 1..Len(kws) : Contains(Lower(lines[i]), kws[j])}
         IN IF hits = {} THEN BulletsFromUncapped(lines, kws, i + 1, bullets)
            ELSE LET j == CHOOSE h \in hits : \A g \in hits : h <= g
                 IN BulletsFromUncapped(lines, kws, i + 1,
                                        Append(bullets, Bullet(kws[j], lines[i])))

RECURSIVE BulletsFrom(_, _, _, _)
\* main.py:176-180: lines and kws are the slices the loops run over
BulletsFrom(lines, kws, i, bullets) ==
    IF i > Len(lines) THEN bullets
    ELSE LET hits == {j \in 1..Len(kws) :
                        Contains(Lower(lines[i]), kws[j]) /\ Len(bullets) < MaxBullets}
         IN IF hits = {} THEN BulletsFrom(lines, kws, i + 1, bullets)
            ELSE LET j == CHOOSE h \in hits : \A g \in hits : h <= g
                 IN BulletsFrom(lines, kws, i + 1,
                                Append(bullets, Bullet(kws[j], lines[i])))

\* simple_ai_generate, main.py:147-208.  jd_list, um_list and overlap are
\* list(jd_kw), list(um_kw) and the list built from the intersection: the
\* iteration orders of the three sets
SimpleAiGenerate(job_description, user_material, jd_list, um_list, overlap) ==
    LET jd_lines == StrippedLines(job_description)
        um_lines == StrippedLines(user_material)
        title == IF jd_lines # <<>>
                 THEN Join(Take(SplitWs(jd_lines[1]), TitleTokens), <<" ">>)
                 ELSE DefaultTitle
        found_bullets == BulletsFrom(Take(um_lines, ScannedLines),
                                     Take(jd_list, ScannedKeywords), 1, <<>>)
        bullets == IF found_bullets = <<>> THEN <<FallbackBullet(um_list)>>
                   ELSE found_bullets
    IN [title |-> title,
        summary |-> SummaryHead \o Join(Take(overlap, SummaryKeywords), CommaSpace)
                    \o SummaryTail,
        bullets |-> bullets,
        cover_letter |-> CoverHead \o Join(Take(overlap, SummaryKeywords), CommaSpace)
                         \o CoverTail,
        header |-> "Impact-forward Resume",
        footer |-> "Created with Flames Blue Resume Builder",
        advice |-> Advice]

-----------------------------------------------------------------------------
(* POST /generate, main.py:211-215.                                        *)

Generate ==
    /\ gen.phase = "request"
    /\ IF Strip(gen.job_description) = <<>> \/ Strip(gen.user_material) = <<>>
       THEN gen' = [gen EXCEPT !.phase = "response", !.status = 400]
       ELSE LET jd_kw == Range(Keywords(gen.job_description))
                um_kw == Range(Keywords(gen.user_material))
            IN \E jd_list \in Orders(jd_kw), um_list \in Orders(um_kw),
                  overlap \in Orders(jd_kw \cap um_kw) :
                 gen' = [gen EXCEPT
                            !.phase = "response",
                            !.status = 200,
                            !.content = SimpleAiGenerate(gen.job_description,
                                            gen.user_material, jd_list, um_list, overlap)]
    /\ UNCHANGED <<db, libs, user, session, profile, clock, reading, pc, req, found, uid, built,
                   draws, trace, last, saves, calls, ops, ext>>

\* Inputs of the generator.
MaxPlainLines == 12
MaxKeywordLines == 9

JobDescriptions ==
    {<<"R", "u", "s", "t", " ", "D", "e", "v", "\n", "n", "e", "e", "d", " ",
      "r", "u", "s", "t", " ", "g", "o">>,
     <<"g", "o">>,
     <<" ", "\n">>,
     <<"a", " ", "b", " ", " ", "c", " ", "d", " ", "e", " ", "f", " ", "g",
      " ", "h", "\n", "M", "A", "D", "E", " ", "t", "o", "o", "l", "s">>,
     \* a form feed and a no-break space: blank
     <<"\f", "U+00A0">>,
     \* WOR, the Kelvin sign, S; a form feed; E acute, tude TOOLS; A and a
     \* capital sigma that ends the word
     <<"W", "O", "R", "U+212A", "S", "\f", "U+00C9", "t", "u", "d", "e",
       "U+2003", "T", "O", "O", "L", "S", " ", "A", "U+03A3", ".">>}
BlankLine == <<" ", "\t">>
PlainLine == <<"o", "k">>
KeywordLine ==
    <<"M", "a", "d", "e", " ", "R", "u", "s", "t", " ", "t", "o", "o", "l",
      "s">>
Copies(line, n) == [i \in 1..n |-> line]
\* w blank lines, then b lines without a keyword, then a lines with keywords
Material(w, b, a) ==
    Join(Copies(BlankLine, w) \o Copies(PlainLine, b) \o Copies(KeywordLine, a), <<"\n">>)
\* materials whose lines end at a form feed, a line separator and a next-line
\* character, with a Kelvin sign, a dotted capital I and capital sigmas among
\* the letters
OddMaterials ==
    {<<"r", "u", "s", "t", " ", "a", "\f", "r", "u", "s", "t", " ", "b">>,
     <<"U+00A0", "w", "o", "r", "U+212A", "s", "U+2028", "T", "o", "o", "l",
       "s", "U+0085", "U+0130", "x", " ", "U+03A3", "A", "U+03A3", "'", "s">>}
UserMaterials ==
    {Material(w, b, a) : w \in 0..1, b \in 0..MaxPlainLines, a \in 0..MaxKeywordLines}
    \cup OddMaterials

NoContent ==
    [title |-> <<>>, summary |-> <<>>, bullets |-> <<>>, cover_letter |-> <<>>,
     header |-> "", footer |-> "", advice |-> <<>>]

InitGen ==
    /\ db \in BOOLEAN
    /\ libs = AllLibs
    /\ user = <<>>
    /\ session = <<>>
    /\ profile = <<>>
    /\ clock = [user |-> 0, session |-> 0, profile |-> 0]
    /\ reading = 0
    /\ pc = [p \in Procs |-> "idle"]
    /\ req = [p \in Procs |-> NoRequest]
    /\ found = [p \in Procs |-> <<>>]
    /\ uid = [p \in Procs |-> <<>>]
    /\ built = [p \in Procs |-> NoDoc]
    /\ draws = 0
    /\ trace = <<>>
    /\ last = NoResponse
    /\ saves = <<>>
    /\ calls = 0
    /\ ops = [find |-> 0, insert |-> 0, update |-> 0]
    /\ \E jd \in JobDescriptions, um \in UserMaterials :
         gen = [phase |-> "request", job_description |-> jd, user_material |-> um,
                status |-> 0, content |-> NoContent]
    /\ ext = ExtIdle

NextGen == Generate

SpecGen == InitGen /\ [][NextGen]_vars

-----------------------------------------------------------------------------
(* POST /upload/extract-text, main.py:104-144.                             *)

ErrCut == 120

\* s.split(sep)[-1]: the part of s after the last sep, all of s without one
LastPart(s, sep) ==
    LET at == {i \in 1..Len(s) : s[i] = sep}
    IN IF at = {} THEN s
       ELSE SubSeq(s, (CHOOSE i \in at : \A j \in at : j <= i) + 1, Len(s))

\* faulty variant: the extension is compared as written
ExtensionCaseSensitive(filename) == LastPart(Or(filename, Str(<<>>)).v, ".")

\* main.py:109-110
Extension(filename) == Lower(LastPart(Or(filename, Str(<<>>)).v, "."))

\* main.py:114, 126, 136: the branch taken for an extension
ExtractPath(e) ==
    IF e = <<"p", "d", "f">> THEN "pdf"
    ELSE IF e \in {<<"d", "o", "c", "x">>, <<"d", "o", "c">>} THEN "docx"
    ELSE "text"

\* bytes.decode("utf-8", errors="ignore"); bytes and code points are numbers
IsCont(b) == b >= 128 /\ b <= 191
\* the length of the sequence a lead byte announces, 0 for no lead byte
Utf8Len(b) ==
    IF b < 128 THEN 1
    ELSE IF b >= 194 /\ b <= 223 THEN 2
    ELSE IF b >= 224 /\ b <= 239 THEN 3
    ELSE IF b >= 240 /\ b <= 244 THEN 4
    ELSE 0
\* the j-th byte after lead byte b0 continues its sequence
FollowOk(b0, j, b) ==
    IF j > 1 THEN IsCont(b)
    ELSE CASE b0 = 224 -> b >= 160 /\ b <= 191
           [] b0 = 237 -> b >= 128 /\ b <= 159
           [] b0 = 240 -> b >= 144 /\ b <= 191
           [] b0 = 244 -> b >= 128 /\ b <= 143
           [] OTHER -> IsCont(b)
RECURSIVE Utf8Tail(_, _, _, _)
\* the value of the n bytes from i on, acc holding the bits read so far
Utf8Tail(s, i, n, acc) ==
    IF n = 0 THEN acc ELSE Utf8Tail(s, i + 1, n - 1, acc * 64 + (s[i] - 128))
Utf8Lead(b, n) ==
    IF n = 1 THEN b ELSE IF n = 2 THEN b - 192 ELSE IF n = 3 THEN b - 224 ELSE b - 240
RECURSIVE Utf8IgnoreFrom(_, _)
Utf8IgnoreFrom(s, i) ==
    IF i > Len(s) THEN <<>>
    ELSE LET n == Utf8Len(s[i])
             \* the bytes after s[i] that continue its sequence
             good == {j \in 1..(n - 1) :
                        \A k \in 1..j : i + k <= Len(s) /\ FollowOk(s[i], k, s[i + k])}
             have == Cardinality(good)
         IN IF n = 0 THEN Utf8IgnoreFrom(s, i + 1)
            ELSE IF have = n - 1
            THEN <<Utf8Tail(s, i + 1, n - 1, Utf8Lead(s[i], n))>>
                 \o Utf8IgnoreFrom(s, i + n)
            ELSE Utf8IgnoreFrom(s, i + have + 1)
Utf8Ignore(s) == Utf8IgnoreFrom(s, 1)

\* What the parsing libraries may do with an upload.  A reader either
\* raises (with a message) or yields pages; a page either raises or yields
\* its text, None standing for no text.
LongMessage == [i \in 1..(ErrCut + 1) |-> "e"]
Raises(msg) == [raises |-> TRUE, msg |-> msg, parts |-> <<>>]
Yields(parts) == [raises |-> FALSE, msg |-> <<>>, parts |-> parts]
PageRaises == [t |-> "raises", v |-> <<>>]
PageOutcomes == {PageRaises, None, Str(<<" ", "p">>), Str(<<"\f", "p", "U+00A0">>)}
PdfOutcomes ==
    {Raises(<<"x">>), Raises(LongMessage), Yields(<<>>)}
    \cup {Yields(<<a>>) : a \in PageOutcomes}
    \cup {Yields(<<a, b>>) : a, b \in PageOutcomes}
Paragraphs == {<<>>, <<"d", " ">>, <<"U+2003", "d">>}
DocxOutcomes ==
    {Raises(<<"x">>), Yields(<<>>)}
    \cup {Yields(<<a>>) : a \in Paragraphs}
    \cup {Yields(<<a, b>>) : a, b \in Paragraphs}

RECURSIVE PageTexts(_)
\* main.py:119-124: a page that raises is skipped, None counts as ""
PageTexts(pages) ==
    IF pages = <<>> THEN <<>>
    ELSE (IF Head(pages).t = "raises" THEN <<>> ELSE <<Or(Head(pages), Str(<<>>)).v>>)
         \o PageTexts(Tail(pages))

Extracted(path, status, detail, msg, text) ==
    [ext EXCEPT !.phase = "response", !.path = path, !.status = status,
                !.detail = detail, !.msg = msg, !.text = text]

ExtractText ==
    /\ ext.phase = "request"
    /\ LET path == ExtractPath(Extension(ext.filename)) IN
       IF ~db
       THEN ext' = Extracted("none", 500, "Database not configured", <<>>, <<>>)
       ELSE IF path = "pdf"
       THEN IF ~libs.pdf
            THEN ext' = Extracted(path, 400, "PDF support not available", <<>>, <<>>)
            ELSE \E reader \in PdfOutcomes :
                   ext' = IF reader.raises
                          THEN Extracted(path, 400, "Failed to read file: ",
                                         Take(reader.msg, ErrCut), <<>>)
                          ELSE Extracted(path, 200, "", <<>>,
                                         Strip(Join(PageTexts(reader.parts), <<"\n">>)))
       ELSE IF path = "docx"
       THEN IF ~libs.docx
            THEN ext' = Extracted(path, 400, "DOCX support not available", <<>>, <<>>)
            ELSE \E document \in DocxOutcomes :
                   ext' = IF document.raises
                          THEN Extracted(path, 400, "Failed to read file: ",
                                         Take(document.msg, ErrCut), <<>>)
                          ELSE Extracted(path, 200, "", <<>>,
                                         Strip(Join(document.parts, <<"\n">>)))
       ELSE ext' = Extracted(path, 200, "", <<>>, Utf8Ignore(ext.bytes))
    /\ UNCHANGED <<db, libs, user, session, profile, clock, reading, pc, req, found, uid,
                   built, draws, trace, last, saves, calls, ops, gen>>

\* Uploads.
MaxBytes == 3
ByteValues == {65, 169, 195, 226, 255}
Uploads == UNION {[1..n -> ByteValues] : n \in 0..MaxBytes}
Filenames ==
    {None, Str(<<>>), Str(<<"a">>), Str(<<"p", "d", "f">>), Str(<<"a", ".", "p", "d", "f">>), Str(<<"a", ".", "P", "d", "F">>),
     Str(<<"a", ".", "d", "o", "c", "x">>), Str(<<"A", ".", "D", "O", "C", "X">>), Str(<<"a", ".", "d", "o", "c">>), Str(<<".", "D", "o", "c">>), Str(<<"a", ".", "t", "x", "t">>),
     Str(<<"a", ".", "p", "d", "f", ".", "t", "x", "t">>), Str(<<"a", ".", "t", "x", "t", ".", "p", "d", "f">>), Str(<<"a", ".">>), Str(<<"a", ".", "p", "d", "f", "x">>),
     Str(<<"a", ".", "D", "O", "C", "U+212A">>)}

InitExtract ==
    /\ db \in BOOLEAN
    /\ libs \in [pdf : BOOLEAN, docx : BOOLEAN]
    /\ user = <<>>
    /\ session = <<>>
    /\ profile = <<>>
    /\ clock = [user |-> 0, session |-> 0, profile |-> 0]
    /\ reading = 0
    /\ pc = [p \in Procs |-> "idle"]
    /\ req = [p \in Procs |-> NoRequest]
    /\ found = [p \in Procs |-> <<>>]
    /\ uid = [p \in Procs |-> <<>>]
    /\ built = [p \in Procs |-> NoDoc]
    /\ draws = 0
    /\ trace = <<>>
    /\ last = NoResponse
    /\ saves = <<>>
    /\ calls = 0
    /\ ops = [find |-> 0, insert |-> 0, update |-> 0]
    /\ gen = GenIdle
    /\ \E filename \in Filenames, bytes \in Uploads :
         ext = [phase |-> "request", filename |-> filename, bytes |-> bytes,
                path |-> "none", status |-> 0, detail |-> "", msg |-> <<>>,
                text |-> <<>>]

NextExtract == ExtractText

SpecExtract == InitExtract /\ [][NextExtract]_vars

-----------------------------------------------------------------------------
(* Reading the trace of sign-in steps.                                     *)

IsStep(i, step) == i \in 1..Len(trace) /\ trace[i].step = step

\* positions i, i+1, i+2 are the three steps of one sign-in call
SoloCall(i) ==
    /\ IsStep(i, "find") /\ IsStep(i + 1, "upsert") /\ IsStep(i + 2, "return")
    /\ trace[i + 1].p = trace[i].p
    /\ trace[i + 2].p = trace[i].p

\* the first step `step` of worker trace[i].p after position i, or 0
StepAfter(i, step) ==
    LET S == {j \in (i + 1)..Len(trace) : trace[j].p = trace[i].p /\ trace[j].step = step}
    IN IF S = {} THEN 0 ELSE CHOOSE j \in S : \A k \in S : j <= k

Returns(t) == Cardinality({i \in 1..Len(t) : t[i].step = "return"})
UsersWithEmail(e) == {i \in 1..Len(user) : user[i].email = e}

\* calls starting at i < j, same email, both lookups found no user and both
\* were made before either call wrote to the user collection
Raced(i, j) ==
    /\ i < j
    /\ IsStep(i, "find") /\ IsStep(j, "find")
    /\ trace[i].email = trace[j].email
    /\ trace[i].user_id = <<>> /\ trace[j].user_id = <<>>
    /\ StepAfter(i, "upsert") > j
    /\ StepAfter(i, "return") # 0 /\ StepAfter(j, "return") # 0

-----------------------------------------------------------------------------
(* C1: two sign-in calls with one email, run one after the other with no   *)
(* store call of another sign-in among theirs, return the same user_id and *)
(* different tokens, whatever requests were served before them or are      *)
(* waiting at a store call meanwhile.                                      *)
C1_SameUserFreshToken ==
    \A i \in 1..Len(trace) :
        (SoloCall(i) /\ SoloCall(i + 3) /\ trace[i].email = trace[i + 3].email)
        => /\ trace[i + 2].user_id = trace[i + 5].user_id
           /\ trace[i + 2].token # trace[i + 5].token

\* two such calls have returned, after a profile was saved and two sign-ins
\* raced and left two users with the email
C1_Witness ==
    \E i \in 1..Len(trace) :
        /\ SoloCall(i) /\ SoloCall(i + 3) /\ trace[i].email = trace[i + 3].email
        /\ \E a, b \in 1..Len(trace) :
             /\ Raced(a, b)
             /\ trace[a].email = trace[i].email
             /\ StepAfter(a, "return") < i /\ StepAfter(b, "return") < i
        /\ Cardinality(UsersWithEmail(trace[i].email)) = 2
        /\ Len(profile) = 1

(* C4: every session document refers to a user document that is in the     *)
(* user collection, from the state in which the session is inserted on.    *)
C4_SessionUserExists ==
    \A i \in 1..Len(session) :
        \E j \in 1..Len(user) : user[j]._id = session[i].user_id

\* a session was inserted while another sign-in, which has not returned yet,
\* was between its lookup and its return
C4_Witness ==
    \E i, j \in 1..Len(trace) :
        /\ i < j
        /\ IsStep(i, "find") /\ IsStep(j, "return")
        /\ trace[i].p # trace[j].p
        /\ StepAfter(i, "return") = 0
        /\ Len(session) >= 1

(* C5: when two sign-in calls with one email both look the user up, find   *)
(* none, and only then insert, the user collection holds two documents     *)
(* with that email and the calls return different user_ids.                *)
C5_RaceDuplicatesUser ==
    \A i, j \in 1..Len(trace) :
        Raced(i, j)
        => /\ Cardinality(UsersWithEmail(trace[i].email)) >= 2
           /\ trace[StepAfter(i, "return")].user_id # trace[StepAfter(j, "return")].user_id

C5_Witness ==
    \E i, j \in 1..Len(trace) :
        /\ Raced(i, j)
        /\ Cardinality(UsersWithEmail(trace[i].email)) = 2

(* C6: a step inserts exactly one session when it is the return of a       *)
(* successful sign-in and none otherwise, it leaves every earlier session  *)
(* as it was, and the sessions number the successful sign-ins.             *)
C6_OneSessionPerSignin ==
    [][/\ Len(session') = Len(session) + (Returns(trace') - Returns(trace))
       /\ Returns(trace') - Returns(trace) \in {0, 1}
       /\ SubSeq(session', 1, Len(session)) = session
       /\ Len(session') = Returns(trace')]_vars

\* two sign-ins of one user have returned and a profile was saved since
C6_Witness ==
    /\ Len(session) = 2
    /\ session[1].user_id = session[2].user_id
    /\ Len(profile) = 1

\* 24 characters, each a hex digit of either case
WellFormedId(s) ==
    /\ Len(s) = 24
    /\ \A i \in 1..Len(s) :
         s[i] \in {"0", "1", "2", "3", "4", "5", "6", "7", "8", "9", "a", "b", "c",
                   "d", "e", "f", "A", "B", "C", "D", "E", "F"}

(* C7, for the calls made with the store handle present: a save-profile    *)
(* call whose user_id is not a well-formed identifier answers 400 and      *)
(* leaves the three collections unchanged.                                 *)
C7_InvalidUserId400 ==
    [][(db /\ last' # last /\ last'.op = "save_profile" /\ ~WellFormedId(last'.arg))
       => (last'.status = 400 /\ UNCHANGED storeVars)]_vars

(* C8: with the store handle absent every handler answers 500, "Database   *)
(* not configured", at once: no store operation is issued, no collection   *)
(* changes and sign-in does not reach its lookup.                          *)
C8_NoStore500 ==
    [][~db => /\ UNCHANGED <<storeVars, ops, pc>>
              /\ last'.status = 500
              /\ last'.body = Detail("Database not configured")
              /\ trace' # trace => trace'[Len(trace')].step = "error"]_vars

\* all three handlers have been refused
C8_Witness ==
    /\ ~db
    /\ calls = 3
    /\ Len(trace) = 1 /\ trace[1].step = "error"
    /\ last.op = "get_profile"
    /\ ops = [find |-> 0, insert |-> 0, update |-> 0]

(* C2: a fetch by the share_slug a successful save-profile call returned   *)
(* answers with the content, loom_url and photo_url that call saved, and   *)
(* with _id and user_id as strings.                                        *)
C2_FetchReturnsSaved ==
    (last.op = "get_profile" /\ db)
    => \A i \in 1..Len(saves) :
          saves[i].share_slug = last.arg
          => /\ last.status = 200
             /\ last.body.content = saves[i].payload.content
             /\ last.body.loom_url = saves[i].payload.loom_url
             /\ last.body.photo_url = saves[i].payload.photo_url
             /\ last.body._id.t = "str"
             /\ last.body.user_id.t = "str"

(* C3: no two profile documents have the same share_slug.                  *)
C3_UniqueShareSlug ==
    \A i, j \in 1..Len(profile) :
        i # j => profile[i].share_slug # profile[j].share_slug

(* C9: for a job description and a user material that are both non-empty   *)
(* after trimming, generate answers with between 1 and 8 bullets: at most  *)
(* one per scanned line of the material, and exactly the one fallback      *)
(* bullet when no scanned line contains a keyword of the job description.  *)
IsFallback(b) == Take(b, Len(FallbackHead)) = FallbackHead
IsDelivered(b) == Take(b, Len(BulletHead)) = BulletHead
\* the scanned lines that contain some keyword of the job description
MatchingLines(job_description, user_material) ==
    LET scanned == Take(StrippedLines(user_material), ScannedLines)
    IN {i \in 1..Len(scanned) :
          \E k \in Range(Keywords(job_description)) : Contains(Lower(scanned[i]), k)}

C9_BulletsBetween1And8 ==
    (/\ gen.phase = "response"
     /\ Strip(gen.job_description) # <<>>
     /\ Strip(gen.user_material) # <<>>)
    => LET bullets == gen.content.bullets
           matching == MatchingLines(gen.job_description, gen.user_material)
       IN /\ gen.status = 200
          /\ Len(bullets) >= 1
          /\ Len(bullets) <= 8
          /\ matching = {} => (Len(bullets) = 1 /\ IsFallback(bullets[1]))
          /\ (\E i \in 1..Len(bullets) : ~IsFallback(bullets[i]))
             => /\ \A i \in 1..Len(bullets) : IsDelivered(bullets[i])
                /\ Len(bullets) <= Cardinality(matching)

\* nine matching lines were scanned and eight bullets returned
C9_Witness ==
    /\ gen.phase = "response"
    /\ gen.status = 200
    /\ Cardinality(MatchingLines(gen.job_description, gen.user_material)) > 8
    /\ Len(gen.content.bullets) = 8

\* only the thirteenth line matches: the fallback bullet is returned
C9_WitnessFallback ==
    /\ gen.phase = "response"
    /\ gen.status = 200
    /\ Len(StrippedLines(gen.user_material)) > ScannedLines
    /\ IsFallback(gen.content.bullets[1])
    /\ Range(Keywords(gen.job_description)) # {}

(* C10.  The extension of a filename, stated without the code's split: x   *)
(* is the lower-cased text after the last dot, or the lower-cased whole    *)
(* name when it has no dot (no name counting as the empty name).           *)
HasExtension(filename, x) ==
    LET name == IF filename.t = "none" THEN <<>> ELSE filename.v IN
    \E k \in 0..Len(name) :
        LET tail == SubSeq(name, k + 1, Len(name)) IN
        /\ k = 0 \/ name[k] = "."
        /\ "." \notin Range(tail)
        /\ Lower(tail) = x
RawDecoded ==
    /\ ext.path = "text"
    /\ ext.status = 200
    /\ ext.text = Utf8Ignore(ext.bytes)

(* C10 as stated: past the store-handle check, exactly the extension pdf   *)
(* takes the PDF path and exactly docx the DOCX path; any other upload is  *)
(* decoded as UTF-8 with the invalid bytes dropped and answers 200.        *)
C10_OnlyPdfAndDocxParsed ==
    (ext.phase = "response" /\ db)
    => /\ ext.path = "pdf" <=> HasExtension(ext.filename, <<"p", "d", "f">>)
       /\ ext.path = "docx" <=> HasExtension(ext.filename, <<"d", "o", "c", "x">>)
       /\ (~HasExtension(ext.filename, <<"p", "d", "f">>) /\ ~HasExtension(ext.filename, <<"d", "o", "c", "x">>))
          => RawDecoded

(* C10 amended: past the store-handle check, exactly the extension pdf     *)
(* takes the PDF path and exactly docx and doc the DOCX path; any other    *)
(* upload is decoded as UTF-8 with the invalid bytes dropped and answers   *)
(* 200.                                                                    *)
C10_PdfDocxDocParsed ==
    (ext.phase = "response" /\ db)
    => /\ ext.path = "pdf" <=> HasExtension(ext.filename, <<"p", "d", "f">>)
       /\ ext.path = "docx" <=> (\/ HasExtension(ext.filename, <<"d", "o", "c", "x">>)
                                 \/ HasExtension(ext.filename, <<"d", "o", "c">>))
       /\ (/\ ~HasExtension(ext.filename, <<"p", "d", "f">>)
           /\ ~HasExtension(ext.filename, <<"d", "o", "c", "x">>)
           /\ ~HasExtension(ext.filename, <<"d", "o", "c">>))
          => RawDecoded

\* an upload named a.pdf.txt with an invalid byte was decoded, with neither
\* parsing library imported
C10_Witness ==
    /\ ext.phase = "response"
    /\ ext.filename = Str(<<"a", ".", "p", "d", "f", ".", "t", "x", "t">>)
    /\ ~libs.pdf /\ ~libs.docx
    /\ RawDecoded
    /\ Len(ext.text) < Len(ext.bytes)
    /\ Len(ext.text) > 0

\* an upload named .Doc was refused for want of the DOCX library
C10_WitnessDoc ==
    /\ ext.phase = "response"
    /\ ext.filename = Str(<<".", "D", "o", "c">>)
    /\ ext.path = "docx"
    /\ ext.status = 400

====
